---- MODULE Spec2Model ----
(***************************************************************************)
(* Session and authorization core of the e-learning backend: the users     *)
(* table, the JWT issuer, the auth controller (register, login, logout,    *)
(* refresh, change-password) and the auth middleware (protect,             *)
(* verifyRefreshToken).  Every request runs as a chain of Express          *)
(* handlers; a chain yields to other requests between two handlers and     *)
(* between the SELECT and the INSERT of register.                          *)
(***************************************************************************)
EXTENDS Integers, Sequences, FiniteSets, TLC

(* ------------------------------ bounds -------------------------------- *)
\* rows the users table may hold (the seeded rows included)
MaxUsers == 3
\* requests started in one behaviour
MaxRequests == 3
\* rows that leave the users table in one behaviour
MaxDeletes == 1

(* ------------------------- program constants -------------------------- *)
\* expiresIn '7d' of the access token, in seconds
AccessTTL == 604800
\* expiresIn '30d' of the refresh token, in seconds
RefreshTTL == 2592000

\* Two requests are in flight at any time: the least number that interleaves.
Slots == {1, 2}

\* The seconds at which the clock is read: the first one, the next one, and
\* the ones at which the tokens signed in the first one expire.
Clock == {0, 1, AccessTTL, RefreshTTL}

(* ------------------------------ values -------------------------------- *)
\* A password is its first 72 bytes and what follows them: bcrypt keys on
\* the first 72 bytes only, and validateRegister admits up to 128 characters.
SeedPassword == [first72 |-> "Admin123!", rest |-> ""]
LongPassword == [first72 |-> "Aa1-72-bytes", rest |-> ""]
LongerPassword == [first72 |-> "Aa1-72-bytes", rest |-> "x"]
Passwords == {SeedPassword, LongPassword, LongerPassword}

AdminEmail == "admin@elearning.com"
StudentEmail == "student@elearning.com"
Emails == {AdminEmail, StudentEmail, "alice@x.com"}

\* body('role').optional().isIn(['student', 'instructor'])
validateRegister == {"student", "instructor"}

\* The roles the register requests of Spec carry: the default one (none of
\* the handlers below tells a student from an instructor).
RegisterRoles == {"student"}

\* A JWT is determined by the secret that signed it, the id claim and the
\* issued-at second (exp = iat + expiresIn); NoToken is an absent token,
\* NullToken the SQL NULL of users.refresh_token, Garbage a malformed or
\* badly signed string.
NoToken == [kind |-> "none", id |-> 0, iat |-> 0]
NullToken == [kind |-> "null", id |-> 0, iat |-> 0]
Garbage == [kind |-> "garbage", id |-> 0, iat |-> 0]

NoUser == [id |-> 0, role |-> "none"]

VARIABLES
    users,      \* the users table: id -> row
    nextId,     \* the SERIAL sequence of users.id
    now,        \* the clock, in seconds
    pc,         \* per request slot: the handler its chain runs next
    req,        \* per request slot: the request object (body, req.user)
    last,       \* the response sent last
    nreq,       \* requests started so far
    issued,     \* the token pairs generateTokens has returned: {[id, iat]}
    courses,    \* the courses table: id -> row
    enrollments, \* the enrollments table: <<user_id, course_id>> -> row
    lesson_progress, \* the lesson_progress table: <<user_id, lesson_id>> -> row
    localStorage,    \* the browser's localStorage: accessToken, refreshToken
    originalRequest  \* per call of the frontend's api: its config and progress

vars == <<users, nextId, now, pc, req, last, nreq, issued, courses, enrollments, lesson_progress, localStorage, originalRequest>>

(* ------------------------------ bcrypt -------------------------------- *)
\* bcrypt.hash(password, salt): the digest is a function of the first 72
\* bytes of the password (the salt is kept with the digest).
bcryptHash(password) == password.first72

\* bcrypt.compare(password, hash)
bcryptCompare(password, hash) == bcryptHash(password) = hash

(* ---------------------------- jsonwebtoken ---------------------------- *)
expiresIn(kind) == IF kind = "access" THEN AccessTTL ELSE RefreshTTL

\* jwt.sign({ id }, secret, { expiresIn }): iat is the current second.
jwtSign(kind, userId) == [kind |-> kind, id |-> userId, iat |-> now]

\* jwt.verify that does not look at the expiry (mutation of jwtVerify).
jwtVerify_noExpiry(token, kind) ==
    IF token.kind # kind THEN "JsonWebTokenError" ELSE "ok"

\* jwt.verify with one secret for both classes of token: the signature of
\* either class verifies, the expiry is the token's own (mutation of
\* jwtVerify).
jwtVerify_oneSecret(token, kind) ==
    IF token.kind \notin {"access", "refresh"} THEN "JsonWebTokenError"
    ELSE IF now >= token.iat + expiresIn(token.kind) THEN "TokenExpiredError"
    ELSE "ok"

\* jwt.verify(token, secret): the signature first, then the expiry.
jwtVerify(token, kind) ==
    IF token.kind # kind THEN "JsonWebTokenError"
    ELSE IF now >= token.iat + expiresIn(kind) THEN "TokenExpiredError"
    ELSE "ok"

generateTokens(userId) ==
    [accessToken |-> jwtSign("access", userId),
     refreshToken |-> jwtSign("refresh", userId)]

\* What a client can present: nothing, a string that is no token of this
\* server, or either token of a pair the server has issued.
Presentable ==
    {NoToken, Garbage}
    \cup {[kind |-> "access", id |-> p.id, iat |-> p.iat] : p \in issued}
    \cup {[kind |-> "refresh", id |-> p.id, iat |-> p.iat] : p \in issued}

(* ------------------------------ store --------------------------------- *)
\* SELECT ... FROM users WHERE email = ?
usersByEmail(email) == {u \in DOMAIN users : users[u].email = email}

\* SELECT ... FROM users WHERE id = ?
usersById(id) == {u \in DOMAIN users : u = id}

\* UPDATE users SET refresh_token = ? WHERE id = ? (no row, no change)
setRefreshToken(id, token) ==
    [u \in DOMAIN users |->
        IF u = id THEN [users[u] EXCEPT !.refresh_token = token] ELSE users[u]]

\* The rows of the seeder that the flows below need: the admin and a
\* student, both with the seeder's one password.
seedUsers ==
    [u \in {1, 2} |->
        [email |-> IF u = 1 THEN AdminEmail ELSE StudentEmail,
         password |-> bcryptHash(SeedPassword),
         role |-> IF u = 1 THEN "admin" ELSE "student",
         is_active |-> TRUE, refresh_token |-> NullToken]]

(* ----------------------------- responses ------------------------------ *)
\* The request object, as far as a later handler of the chain reads it: the
\* email of the body, the refresh token presented, req.user, whether the
\* refresh token it presented has been exchanged by another request since
\* verifyRefreshToken passed it (bookkeeping of the model), and the tags
\* req.isInstructor and req.isEnrolled of enrolledOrInstructor.
IdleReq ==
    [user |-> NoUser, token |-> NoToken, email |-> "", stale |-> FALSE,
     isInstructor |-> FALSE, isEnrolled |-> FALSE]

NoResponse ==
    [op |-> "none", status |-> 0, message |-> "", code |-> "",
     accessToken |-> NoToken, refreshToken |-> NoToken]

\* res.status(status).json({ message, code, data: { accessToken, refreshToken } })
Response(op, status, message, code, tokens) ==
    [op |-> op, status |-> status, message |-> message, code |-> code,
     accessToken |-> tokens.accessToken, refreshToken |-> tokens.refreshToken]

NoTokens == [accessToken |-> NoToken, refreshToken |-> NoToken]

\* The calls of the frontend's api object that are under way at a time, and
\* the config of a call not yet made: _retry unset, no Authorization header.
\* refreshes and resends count the refresh calls and the resends the
\* response interceptor has made for the call (bookkeeping of the model).
Calls == {1, 2}

NoCall ==
    [phase |-> "new", retry |-> FALSE, Authorization |-> NoToken, refreshToken |-> NoToken,
     status |-> 0, data |-> NoTokens, refreshes |-> 0, resends |-> 0, rejects |-> FALSE]

Init ==
    /\ users = seedUsers
    /\ nextId = 3
    /\ now = 0
    /\ pc = [c \in Slots |-> "idle"]
    /\ req = [c \in Slots |-> IdleReq]
    /\ last = NoResponse
    /\ nreq = 0
    /\ issued = {}
    /\ courses = <<>>
    /\ enrollments = <<>>
    /\ lesson_progress = <<>>
    /\ localStorage = NoTokens
    /\ originalRequest = [r \in Calls |-> NoCall]

(* ------------------------- request plumbing --------------------------- *)
\* A request arrives: it takes a free slot and the next request number.
\* (slots are interchangeable: it takes the first free one)
Arrives(c) ==
    /\ pc[c] = "idle"
    /\ \A d \in Slots : d < c => pc[d] # "idle"
    /\ nreq < MaxRequests

\* The chain ends with a response; the slot is free again.
Respond(c, response) ==
    /\ last' = response
    /\ pc' = [pc EXCEPT ![c] = "idle"]
    /\ req' = [req EXCEPT ![c] = IdleReq]

\* The middleware calls next(): the chain goes on with the handler `to`.
CallNext(c, request, to) ==
    /\ pc' = [pc EXCEPT ![c] = to]
    /\ req' = [req EXCEPT ![c] = request]
    /\ UNCHANGED last

Deny(status, message, code) ==
    [next |-> FALSE, status |-> status, message |-> message, code |-> code,
     user |-> NoUser]

Pass(user) ==
    [next |-> TRUE, status |-> 0, message |-> "", code |-> "", user |-> user]

\* The columns of the row a middleware attaches as req.user.
Identity(u) == [id |-> u, role |-> users[u].role]

(* ---------------------------- middleware ------------------------------ *)
\* protect without the is_active check (mutation of protectResult).
protectResult_noActiveCheck(token) ==
    IF token = NoToken
    THEN Deny(401, "Authentication required. Please log in.", "")
    ELSE IF jwtVerify(token, "access") = "TokenExpiredError"
    THEN Deny(401, "Token expired. Please log in again.", "TOKEN_EXPIRED")
    ELSE IF jwtVerify(token, "access") = "JsonWebTokenError"
    THEN Deny(401, "Invalid token. Please log in again.", "INVALID_TOKEN")
    ELSE IF usersById(token.id) = {}
    THEN Deny(401, "User no longer exists.", "")
    ELSE Pass(Identity(token.id))

\* protect that reports an expired token as an invalid one (mutation of
\* protectResult).
protectResult_expiredAsInvalid(token) ==
    IF token = NoToken
    THEN Deny(401, "Authentication required. Please log in.", "")
    ELSE IF jwtVerify(token, "access") # "ok"
    THEN Deny(401, "Invalid token. Please log in again.", "INVALID_TOKEN")
    ELSE IF usersById(token.id) = {}
    THEN Deny(401, "User no longer exists.", "")
    ELSE IF ~users[token.id].is_active
    THEN Deny(401, "Your account has been deactivated. Please contact support.", "")
    ELSE Pass(Identity(token.id))

\* protect that also wants the user to hold a stored refresh token
\* (mutation of protectResult).
protectResult_needsSession(token) ==
    IF token = NoToken
    THEN Deny(401, "Authentication required. Please log in.", "")
    ELSE IF jwtVerify(token, "access") = "TokenExpiredError"
    THEN Deny(401, "Token expired. Please log in again.", "TOKEN_EXPIRED")
    ELSE IF jwtVerify(token, "access") = "JsonWebTokenError"
    THEN Deny(401, "Invalid token. Please log in again.", "INVALID_TOKEN")
    ELSE IF usersById(token.id) = {}
    THEN Deny(401, "User no longer exists.", "")
    ELSE IF ~users[token.id].is_active
    THEN Deny(401, "Your account has been deactivated. Please contact support.", "")
    ELSE IF users[token.id].refresh_token = NullToken
    THEN Deny(401, "Invalid token. Please log in again.", "INVALID_TOKEN")
    ELSE Pass(Identity(token.id))

\* protect: what it answers to a request carrying `token`.
protectResult(token) ==
    IF token = NoToken
    THEN Deny(401, "Authentication required. Please log in.", "")
    ELSE IF jwtVerify(token, "access") = "TokenExpiredError"
    THEN Deny(401, "Token expired. Please log in again.", "TOKEN_EXPIRED")
    ELSE IF jwtVerify(token, "access") = "JsonWebTokenError"
    THEN Deny(401, "Invalid token. Please log in again.", "INVALID_TOKEN")
    ELSE IF usersById(token.id) = {}
    THEN Deny(401, "User no longer exists.", "")
    ELSE IF ~users[token.id].is_active
    THEN Deny(401, "Your account has been deactivated. Please contact support.", "")
    ELSE Pass(Identity(token.id))

\* verifyRefreshToken without the comparison with the stored token
\* (mutation of verifyRefreshTokenResult).
verifyRefreshTokenResult_noCompare(token) ==
    IF token = NoToken
    THEN Deny(401, "Refresh token required.", "")
    ELSE IF jwtVerify(token, "refresh") # "ok"
    THEN Deny(401, "Invalid or expired refresh token.", "")
    ELSE IF usersById(token.id) = {}
    THEN Deny(401, "Invalid refresh token.", "")
    ELSE IF ~users[token.id].is_active
    THEN Deny(401, "Account is deactivated.", "")
    ELSE Pass(Identity(token.id))

\* verifyRefreshToken: what it answers to a request carrying `token`.
verifyRefreshTokenResult(token) ==
    IF token = NoToken
    THEN Deny(401, "Refresh token required.", "")
    ELSE IF jwtVerify(token, "refresh") # "ok"
    THEN Deny(401, "Invalid or expired refresh token.", "")
    ELSE IF usersById(token.id) = {}
    THEN Deny(401, "Invalid refresh token.", "")
    ELSE IF ~users[token.id].is_active
    THEN Deny(401, "Account is deactivated.", "")
    ELSE IF users[token.id].refresh_token # token
    THEN Deny(401, "Invalid refresh token. Please log in again.", "")
    ELSE Pass(Identity(token.id))

\* protect on a request to one of the routes behind it (POST /logout,
\* POST /change-password, PUT /users/:id); the route decides nothing before
\* its handler runs.
protect(c, token) ==
    /\ Arrives(c)
    /\ nreq' = nreq + 1
    /\ LET r == protectResult(token)
       IN IF r.next
          THEN CallNext(c, [IdleReq EXCEPT !.user = r.user], "protected")
          ELSE Respond(c, Response("protect", r.status, r.message, r.code, NoTokens))
    /\ UNCHANGED <<users, nextId, now, issued>>
    /\ UNCHANGED <<courses, enrollments, lesson_progress, localStorage, originalRequest>>

verifyRefreshToken(c, token) ==
    /\ Arrives(c)
    /\ nreq' = nreq + 1
    /\ LET r == verifyRefreshTokenResult(token)
       IN IF r.next
          THEN CallNext(c, [IdleReq EXCEPT !.token = token, !.user = r.user], "refreshToken")
          ELSE Respond(c, Response("verifyRefreshToken", r.status, r.message, r.code, NoTokens))
    /\ UNCHANGED <<users, nextId, now, issued>>
    /\ UNCHANGED <<courses, enrollments, lesson_progress, localStorage, originalRequest>>

\* optionalAuth: the identity it attaches to a request carrying `token`.
\* rows tells whether the SELECT ... WHERE id = ? AND is_active = 1 answers
\* with rows; it throws when the store is down, and on the PostgreSQL schema,
\* where is_active is a BOOLEAN that cannot be compared with 1.
optionalAuthResult_noActiveFilter(token, rows) ==
    IF token = NoToken THEN NoUser
    ELSE IF jwtVerify(token, "access") # "ok" THEN NoUser
    ELSE IF ~rows THEN NoUser
    ELSE IF usersById(token.id) = {} THEN NoUser
    ELSE Identity(token.id)

optionalAuthResult(token, rows) ==
    IF token = NoToken THEN NoUser
    ELSE IF jwtVerify(token, "access") # "ok" THEN NoUser
    ELSE IF ~rows THEN NoUser
    ELSE IF {u \in usersById(token.id) : users[u].is_active} = {} THEN NoUser
    ELSE Identity(token.id)

\* optionalAuth on a request to one of the public routes (GET /courses,
\* GET /categories, GET /lessons/:id): next() in every case.
optionalAuth(c, token, rows) ==
    /\ Arrives(c)
    /\ nreq' = nreq + 1
    /\ CallNext(c, [IdleReq EXCEPT !.user = optionalAuthResult(token, rows)], "handler")
    /\ UNCHANGED <<users, nextId, now, issued, courses, enrollments, lesson_progress, localStorage, originalRequest>>

\* An Authorization header, as the middleware reads it: the text up to the
\* first space and the fields split(' ') yields after it. The header is
\* absent when the scheme is the empty string.
EmptyString == [kind |-> "empty", id |-> 0, iat |-> 0]
NoHeader == [scheme |-> "", fields |-> <<>>]
Schemes == {"Basic", "Bearer", "Bearer2"}

\* The headers and cookies a client can send with the tokens it can present.
Headers ==
    {NoHeader}
    \cup {[scheme |-> s, fields |-> <<>>] : s \in Schemes}
    \cup {[scheme |-> s, fields |-> <<t>>] : s \in Schemes, t \in Presentable \cup {EmptyString}}
    \cup {[scheme |-> "Bearer", fields |-> <<EmptyString, t>>] : t \in Presentable}
Cookies == Presentable

\* !value of a string or of undefined
falsy(value) == value \in {NoToken, EmptyString}

\* authorization.startsWith('Bearer')
startsWithBearer(scheme) == scheme \in {"Bearer", "Bearer2"}

\* authorization.split(' ')[1]
secondField(header) == IF Len(header.fields) >= 1 THEN header.fields[1] ELSE NoToken

\* The token protect and optionalAuth go on with: undefined (NoToken) when
\* `if (!token)` finds none.
extractToken(header, cookie) ==
    LET token == IF header # NoHeader /\ startsWithBearer(header.scheme)
                 THEN secondField(header)
                 ELSE IF ~falsy(cookie) THEN cookie
                 ELSE NoToken
    IN IF falsy(token) THEN NoToken ELSE token

\* protect and optionalAuth on a request with its header and its cookie.
protectRequest(c, header, cookie) == protect(c, extractToken(header, cookie))

optionalAuthRequest(c, header, cookie, rows) ==
    optionalAuth(c, extractToken(header, cookie), rows)

\* protect when the SELECT of the user throws: the inner catch rethrows what
\* is no JWT error, the outer catch answers 500.
protectStoreDownResult(token) ==
    IF token = NoToken
    THEN Deny(401, "Authentication required. Please log in.", "")
    ELSE IF jwtVerify(token, "access") = "TokenExpiredError"
    THEN Deny(401, "Token expired. Please log in again.", "TOKEN_EXPIRED")
    ELSE IF jwtVerify(token, "access") = "JsonWebTokenError"
    THEN Deny(401, "Invalid token. Please log in again.", "INVALID_TOKEN")
    ELSE Deny(500, "Authentication error. Please try again.", "")

protectStoreDown(c, token) ==
    /\ Arrives(c)
    /\ nreq' = nreq + 1
    /\ LET r == protectStoreDownResult(token)
       IN Respond(c, Response("protect", r.status, r.message, r.code, NoTokens))
    /\ UNCHANGED <<users, nextId, now, issued, courses, enrollments, lesson_progress, localStorage, originalRequest>>

\* verifyRefreshToken when the SELECT of the user throws: the SELECT stands
\* inside the try whose catch answers every error as a JWT error.
verifyRefreshTokenStoreDownResult(token) ==
    IF token = NoToken
    THEN Deny(401, "Refresh token required.", "")
    ELSE IF jwtVerify(token, "refresh") # "ok"
    THEN Deny(401, "Invalid or expired refresh token.", "")
    ELSE Deny(401, "Invalid or expired refresh token.", "")

verifyRefreshTokenStoreDown(c, token) ==
    /\ Arrives(c)
    /\ nreq' = nreq + 1
    /\ LET r == verifyRefreshTokenStoreDownResult(token)
       IN Respond(c, Response("verifyRefreshToken", r.status, r.message, r.code, NoTokens))
    /\ UNCHANGED <<users, nextId, now, issued, courses, enrollments, lesson_progress, localStorage, originalRequest>>

\* The handler a passing middleware hands the request to, where the claims
\* are about the middleware only: it answers 200.
handler(c) ==
    /\ pc[c] = "handler"
    /\ Respond(c, Response("handler", 200, "", "", NoTokens))
    /\ UNCHANGED <<users, nextId, now, nreq, issued, courses, enrollments, lesson_progress, localStorage, originalRequest>>

(* ---------------------------- controller ------------------------------ *)
Issue(userId) == issued \cup {[id |-> userId, iat |-> now]}

\* The emails of the registers that stand between their SELECT and their
\* INSERT; each of them adds at most one row, since users.email is UNIQUE.
pendingEmails == {req[d].email : d \in {e \in Slots : pc[e] = "registerInsert"}}

\* register without the lookup of the email (mutation of registerSelect).
registerSelect_noLookup(c, email) ==
    /\ Arrives(c)
    /\ nextId - 1 + Cardinality(pendingEmails \cup {email}) <= MaxUsers
    /\ nreq' = nreq + 1
    /\ CallNext(c, [IdleReq EXCEPT !.email = email], "registerInsert")
    /\ UNCHANGED <<users, nextId, now, issued>>
    /\ UNCHANGED <<courses, enrollments, lesson_progress, localStorage, originalRequest>>

\* register, up to the SELECT that looks the email up.
registerSelect(c, email) ==
    /\ Arrives(c)
    /\ \/ usersByEmail(email) # {}
       \/ nextId - 1 + Cardinality(pendingEmails \cup {email}) <= MaxUsers
    /\ nreq' = nreq + 1
    /\ IF usersByEmail(email) # {}
       THEN Respond(c, Response("register", 400, "Email already registered",
                                "EMAIL_EXISTS", NoTokens))
       ELSE CallNext(c, [IdleReq EXCEPT !.email = email], "registerInsert")
    /\ UNCHANGED <<users, nextId, now, issued>>
    /\ UNCHANGED <<courses, enrollments, lesson_progress, localStorage, originalRequest>>

\* register, from the INSERT on: users.email is UNIQUE, so the INSERT of an
\* email that has arrived meanwhile throws a driver error, which the error
\* handler answers with 500.
registerInsert(c, password, role) ==
    /\ pc[c] = "registerInsert"
    /\ LET tokens == generateTokens(nextId)
       IN IF usersByEmail(req[c].email) # {}
          THEN /\ Respond(c, Response("register", 500,
                                      "Something went wrong. Please try again later.",
                                      "INTERNAL_ERROR", NoTokens))
               /\ UNCHANGED <<users, nextId, issued>>
          ELSE /\ users' = [u \in DOMAIN users \cup {nextId} |->
                               IF u = nextId
                               THEN [email |-> req[c].email,
                                     password |-> bcryptHash(password),
                                     role |-> role, is_active |-> TRUE,
                                     refresh_token |-> tokens.refreshToken]
                               ELSE users[u]]
               /\ nextId' = nextId + 1
               /\ issued' = Issue(nextId)
               /\ Respond(c, Response("register", 201, "Registration successful", "", tokens))
    /\ UNCHANGED <<now, nreq>>
    /\ UNCHANGED <<courses, enrollments, lesson_progress, localStorage, originalRequest>>

\* The role of a register body: none, or a string.
NoRole == ""
RoleInputs == {NoRole, "student", "instructor", "admin", "guest"}

\* A validator that admits every role (mutation of roleValid).
roleValid_any(role) == role \in RoleInputs

\* body('role').optional().isIn(['student', 'instructor'])
roleValid(role) == role = NoRole \/ role \in validateRegister

\* const { ..., role = 'student' } = req.body
roleDefault(role) == IF role = NoRole THEN "student" ELSE role

\* POST /register with a body handleValidation refuses.
registerInvalid(c, role) ==
    /\ Arrives(c)
    /\ ~roleValid(role)
    /\ nreq' = nreq + 1
    /\ Respond(c, Response("register", 400, "Validation failed", "", NoTokens))
    /\ UNCHANGED <<users, nextId, now, issued, courses, enrollments, lesson_progress, localStorage, originalRequest>>

\* The INSERT of a register whose body, with the role `role`, the validator
\* has admitted; nothing before the INSERT reads the role.
registerWithRole(c, password, role) ==
    /\ roleValid(role)
    /\ registerInsert(c, password, roleDefault(role))

\* login that tells an unknown email from a wrong password (mutation of
\* loginResult).
loginResult_tellsUnknownEmail(email, password) ==
    IF usersByEmail(email) = {}
    THEN Deny(401, "No account with this email", "USER_NOT_FOUND")
    ELSE LET u == CHOOSE u \in usersByEmail(email) : TRUE
         IN IF ~users[u].is_active
            THEN Deny(401, "Your account has been deactivated. Please contact support.",
                      "ACCOUNT_DEACTIVATED")
            ELSE IF ~bcryptCompare(password, users[u].password)
            THEN Deny(401, "Invalid email or password", "INVALID_CREDENTIALS")
            ELSE Pass(Identity(u))

\* login: the response and the row it leaves.
loginResult(email, password) ==
    IF usersByEmail(email) = {}
    THEN Deny(401, "Invalid email or password", "INVALID_CREDENTIALS")
    ELSE LET u == CHOOSE u \in usersByEmail(email) : TRUE
         IN IF ~users[u].is_active
            THEN Deny(401, "Your account has been deactivated. Please contact support.",
                      "ACCOUNT_DEACTIVATED")
            ELSE IF ~bcryptCompare(password, users[u].password)
            THEN Deny(401, "Invalid email or password", "INVALID_CREDENTIALS")
            ELSE Pass(Identity(u))

\* login that returns the token pair without storing the refresh token
\* (mutation of login).
login_noStore(c, email, password) ==
    /\ Arrives(c)
    /\ nreq' = nreq + 1
    /\ LET r == loginResult(email, password)
           tokens == generateTokens(r.user.id)
       IN IF r.next
          THEN /\ UNCHANGED users
               /\ issued' = Issue(r.user.id)
               /\ Respond(c, Response("login", 200, "Login successful", "", tokens))
          ELSE /\ UNCHANGED <<users, issued>>
               /\ Respond(c, Response("login", r.status, r.message, r.code, NoTokens))
    /\ UNCHANGED <<nextId, now>>
    /\ UNCHANGED <<courses, enrollments, lesson_progress, localStorage, originalRequest>>

login(c, email, password) ==
    /\ Arrives(c)
    /\ nreq' = nreq + 1
    /\ LET r == loginResult(email, password)
           tokens == generateTokens(r.user.id)
       IN IF r.next
          THEN /\ users' = setRefreshToken(r.user.id, tokens.refreshToken)
               /\ issued' = Issue(r.user.id)
               /\ Respond(c, Response("login", 200, "Login successful", "", tokens))
          ELSE /\ UNCHANGED <<users, issued>>
               /\ Respond(c, Response("login", r.status, r.message, r.code, NoTokens))
    /\ UNCHANGED <<nextId, now>>
    /\ UNCHANGED <<courses, enrollments, lesson_progress, localStorage, originalRequest>>

\* logout that leaves the stored refresh token (mutation of logout).
logout_keepsToken(c) ==
    /\ pc[c] = "protected"
    /\ UNCHANGED users
    /\ Respond(c, Response("logout", 200, "Logout successful", "", NoTokens))
    /\ UNCHANGED <<nextId, now, nreq, issued>>
    /\ UNCHANGED <<courses, enrollments, lesson_progress, localStorage, originalRequest>>

logout(c) ==
    /\ pc[c] = "protected"
    /\ users' = setRefreshToken(req[c].user.id, NullToken)
    /\ Respond(c, Response("logout", 200, "Logout successful", "", NoTokens))
    /\ UNCHANGED <<nextId, now, nreq, issued>>
    /\ UNCHANGED <<courses, enrollments, lesson_progress, localStorage, originalRequest>>

\* refreshToken also marks every other request whose presented token this
\* one has just exchanged (req.stale is bookkeeping of the model).
refreshToken(c) ==
    /\ pc[c] = "refreshToken"
    /\ LET tokens == generateTokens(req[c].user.id)
       IN /\ users' = setRefreshToken(req[c].user.id, tokens.refreshToken)
          /\ issued' = Issue(req[c].user.id)
          /\ last' = Response("refreshToken", 200, "Token refreshed successfully", "", tokens)
          /\ pc' = [pc EXCEPT ![c] = "idle"]
          /\ req' = [d \in Slots |->
                        IF d = c THEN IdleReq
                        ELSE IF pc[d] = "refreshToken" /\ req[d].token = req[c].token
                        THEN [req[d] EXCEPT !.stale = TRUE]
                        ELSE req[d]]
    /\ UNCHANGED <<nextId, now, nreq>>
    /\ UNCHANGED <<courses, enrollments, lesson_progress, localStorage, originalRequest>>

\* changePassword that stores the new hash and leaves the refresh token
\* (mutation of changePassword).
changePassword_keepsToken(c, currentPassword, newPassword) ==
    /\ pc[c] = "protected"
    /\ LET id == req[c].user.id
       IN IF usersById(id) = {}
          THEN /\ Respond(c, Response("changePassword", 404, "User not found", "", NoTokens))
               /\ UNCHANGED users
          ELSE IF ~bcryptCompare(currentPassword, users[id].password)
          THEN /\ Respond(c, Response("changePassword", 401, "Current password is incorrect",
                                      "INVALID_PASSWORD", NoTokens))
               /\ UNCHANGED users
          ELSE /\ users' = [users EXCEPT ![id].password = bcryptHash(newPassword)]
               /\ Respond(c, Response("changePassword", 200,
                      "Password changed successfully. Please login with your new password.",
                      "", NoTokens))
    /\ UNCHANGED <<nextId, now, nreq, issued>>
    /\ UNCHANGED <<courses, enrollments, lesson_progress, localStorage, originalRequest>>

\* changePassword that ends the user's session when the current password
\* is wrong (mutation of changePassword).
changePassword_revokesOnFailure(c, currentPassword, newPassword) ==
    /\ pc[c] = "protected"
    /\ LET id == req[c].user.id
       IN IF usersById(id) = {}
          THEN /\ Respond(c, Response("changePassword", 404, "User not found", "", NoTokens))
               /\ UNCHANGED users
          ELSE IF ~bcryptCompare(currentPassword, users[id].password)
          THEN /\ Respond(c, Response("changePassword", 401, "Current password is incorrect",
                                      "INVALID_PASSWORD", NoTokens))
               /\ users' = setRefreshToken(id, NullToken)
          ELSE /\ users' = [users EXCEPT ![id].password = bcryptHash(newPassword),
                                         ![id].refresh_token = NullToken]
               /\ Respond(c, Response("changePassword", 200,
                      "Password changed successfully. Please login with your new password.",
                      "", NoTokens))
    /\ UNCHANGED <<nextId, now, nreq, issued>>
    /\ UNCHANGED <<courses, enrollments, lesson_progress, localStorage, originalRequest>>

changePassword(c, currentPassword, newPassword) ==
    /\ pc[c] = "protected"
    /\ LET id == req[c].user.id
       IN IF usersById(id) = {}
          THEN /\ Respond(c, Response("changePassword", 404, "User not found", "", NoTokens))
               /\ UNCHANGED users
          ELSE IF ~bcryptCompare(currentPassword, users[id].password)
          THEN /\ Respond(c, Response("changePassword", 401, "Current password is incorrect",
                                      "INVALID_PASSWORD", NoTokens))
               /\ UNCHANGED users
          ELSE /\ users' = [users EXCEPT ![id].password = bcryptHash(newPassword),
                                         ![id].refresh_token = NullToken]
               /\ Respond(c, Response("changePassword", 200,
                      "Password changed successfully. Please login with your new password.",
                      "", NoTokens))
    /\ UNCHANGED <<nextId, now, nreq, issued>>
    /\ UNCHANGED <<courses, enrollments, lesson_progress, localStorage, originalRequest>>

\* authorize(...roles) of the RBAC middleware, as adminOnly uses it.
authorize(roles, user) == user.role \in roles

\* A JSON value of a request body, as far as is_active is concerned: its
\* type, and the boolean PostgreSQL reads from the text the driver sends for
\* it (false, 0, 'false', '0' and 'f' all read as FALSE).
jsonBoolean(b) == [type |-> "boolean", stored |-> b]
BodyValues ==
    {jsonBoolean(TRUE), jsonBoolean(FALSE),
     [type |-> "number", stored |-> FALSE], [type |-> "string", stored |-> FALSE]}

\* updates.is_active === false
strictlyFalse(value) == value = jsonBoolean(FALSE)

\* PUT /api/users/:id: adminOnly, then updateUser with { is_active } in the body.
updateUserWith(c, target, is_active) ==
    /\ pc[c] = "protected"
    /\ IF ~authorize({"admin"}, req[c].user)
          THEN /\ Respond(c, Response("updateUser", 403, "Access denied.", "", NoTokens))
               /\ UNCHANGED users
          ELSE IF usersById(target) = {}
          THEN /\ Respond(c, Response("updateUser", 404, "User not found", "", NoTokens))
               /\ UNCHANGED users
          ELSE IF strictlyFalse(is_active) /\ target = req[c].user.id
          THEN /\ Respond(c, Response("updateUser", 400,
                                      "You cannot deactivate your own account", "", NoTokens))
               /\ UNCHANGED users
          ELSE /\ users' = [users EXCEPT ![target].is_active = is_active.stored]
               /\ Respond(c, Response("updateUser", 200, "User updated successfully", "",
                                      NoTokens))
    /\ UNCHANGED <<nextId, now, nreq, issued>>
    /\ UNCHANGED <<courses, enrollments, lesson_progress, localStorage, originalRequest>>

\* updateUser with a JSON boolean as is_active.
updateUser(c, target, is_active) == updateUserWith(c, target, jsonBoolean(is_active))

\* DELETE /api/users/:id: adminOnly, then deleteUser. Its UPDATE assigns the
\* integer literal 0 to the BOOLEAN column is_active, which PostgreSQL
\* refuses; the error handler answers the driver's error with 500.
deleteUser(c, target) ==
    /\ pc[c] = "protected"
    /\ IF ~authorize({"admin"}, req[c].user)
          THEN Respond(c, Response("deleteUser", 403, "Access denied.", "", NoTokens))
          ELSE IF usersById(target) = {}
          THEN Respond(c, Response("deleteUser", 404, "User not found", "", NoTokens))
          ELSE IF target = req[c].user.id
          THEN Respond(c, Response("deleteUser", 400, "You cannot delete your own account",
                                   "", NoTokens))
          ELSE Respond(c, Response("deleteUser", 500,
                                   "Something went wrong. Please try again later.",
                                   "INTERNAL_ERROR", NoTokens))
    /\ UNCHANGED <<users, nextId, now, nreq, issued, courses, enrollments, lesson_progress, localStorage, originalRequest>>

(* ------------------------------- RBAC --------------------------------- *)
InstructorEmail == "instructor@elearning.com"

\* Identities a guard may find in req.user: a row of users as protect
\* attaches it, none, and two identities whose role is none of the three
\* roles: a plain unknown one, and one that names a property every
\* JavaScript object inherits ('constructor', 'toString', '__proto__').
Guest == [id |-> 0, role |-> "guest"]
Inherited == [id |-> 0, role |-> "constructor"]
Identities == {Identity(u) : u \in DOMAIN users} \cup {NoUser, Guest, Inherited}

MinRoles == {"student", "instructor", "admin"}

\* Object.prototype, as far as the roles above name it.
ObjectPrototype == {"constructor"}

\* A value of ROLE_HIERARCHY[role] || 0: a number, or what is no number
\* (an inherited function), which every < compares as NaN.
Level(n) == [nan |-> FALSE, n |-> n]
NotANumber == [nan |-> TRUE, n |-> 0]

\* ROLE_HIERARCHY[role] || 0
ROLE_HIERARCHY(role) ==
    CASE role = "student" -> Level(1)
      [] role = "instructor" -> Level(2)
      [] role = "admin" -> Level(3)
      [] role \in ObjectPrototype -> NotANumber
      [] OTHER -> Level(0)

\* a < b of JavaScript: false when either side is NaN
lessThan(a, b) == ~a.nan /\ ~b.nan /\ a.n < b.n

authorizeMinRoleResult(minRole, user) ==
    IF user = NoUser
    THEN Deny(401, "Authentication required.", "")
    ELSE IF lessThan(ROLE_HIERARCHY(user.role), ROLE_HIERARCHY(minRole))
    THEN Deny(403, "Access denied. Insufficient permissions.", "")
    ELSE Pass(user)

\* A guard runs on a request whose req.user an earlier middleware has set
\* (or left unset): it answers, or calls next().
Guarded(c, op, r, request) ==
    /\ Arrives(c)
    /\ nreq' = nreq + 1
    /\ IF r.next
       THEN CallNext(c, request, "handler")
       ELSE Respond(c, Response(op, r.status, r.message, r.code, NoTokens))
    /\ UNCHANGED <<users, nextId, now, issued, courses, enrollments, lesson_progress, localStorage, originalRequest>>

authorizeMinRole(c, minRole, user) ==
    Guarded(c, "authorizeMinRole", authorizeMinRoleResult(minRole, user),
            [IdleReq EXCEPT !.user = user])

\* authorize(...roles): roles.includes(req.user.role).
RoleSets == {{}, {"student"}, {"admin"}, {"admin", "instructor"}}

authorizeResult(roles, user) ==
    IF user = NoUser
    THEN Deny(401, "Authentication required.", "")
    ELSE IF user.role \notin roles
    THEN Deny(403, "Access denied. Required role: <roles>. Your role: <role>", "")
    ELSE Pass(user)

adminOnly(user) == authorizeResult({"admin"}, user)

instructorAndAbove(user) == authorizeResult({"admin", "instructor"}, user)

authorizeRoles(c, roles, user) ==
    Guarded(c, "authorize", authorizeResult(roles, user), [IdleReq EXCEPT !.user = user])

\* ownerOrAdmin(getResourceUserId): resourceUserId is what the lookup
\* returns (0: undefined), found whether it returns at all.
ownerOrAdminResult(user, resourceUserId, found) ==
    IF user = NoUser
    THEN Deny(401, "Authentication required.", "")
    ELSE IF user.role = "admin"
    THEN Pass(user)
    ELSE IF ~found
    THEN Deny(500, "Error checking resource ownership.", "")
    ELSE IF resourceUserId # user.id
    THEN Deny(403, "Access denied. You can only access your own resources.", "")
    ELSE Pass(user)

ownerOrAdmin(c, user, resourceUserId, found) ==
    Guarded(c, "ownerOrAdmin", ownerOrAdminResult(user, resourceUserId, found),
            [IdleReq EXCEPT !.user = user])

\* courseOwnerOrAdmin without the check of the role (mutation of
\* courseOwnerOrAdminResult).
courseOwnerOrAdminResult_noRoleCheck(user, courseId, rows) ==
    IF user = NoUser
    THEN Deny(401, "Authentication required.", "")
    ELSE IF user.role = "admin"
    THEN Pass(user)
    ELSE IF courseId = 0
    THEN Deny(400, "Course ID is required.", "")
    ELSE IF ~rows
    THEN Deny(500, "Error checking course ownership.", "")
    ELSE IF courseId \notin DOMAIN courses
    THEN Deny(404, "Course not found.", "")
    ELSE IF courses[courseId].instructor_id # user.id
    THEN Deny(403, "Access denied. You can only modify your own courses.", "")
    ELSE Pass(user)

\* courseOwnerOrAdmin: courseId is the course the request names (0: none),
\* rows whether the SELECT of the course answers.
courseOwnerOrAdminResult(user, courseId, rows) ==
    IF user = NoUser
    THEN Deny(401, "Authentication required.", "")
    ELSE IF user.role = "admin"
    THEN Pass(user)
    ELSE IF user.role # "instructor"
    THEN Deny(403, "Only instructors and admins can perform this action.", "")
    ELSE IF courseId = 0
    THEN Deny(400, "Course ID is required.", "")
    ELSE IF ~rows
    THEN Deny(500, "Error checking course ownership.", "")
    ELSE IF courseId \notin DOMAIN courses
    THEN Deny(404, "Course not found.", "")
    ELSE IF courses[courseId].instructor_id # user.id
    THEN Deny(403, "Access denied. You can only modify your own courses.", "")
    ELSE Pass(user)

courseOwnerOrAdmin(c, user, courseId, rows) ==
    Guarded(c, "courseOwnerOrAdmin", courseOwnerOrAdminResult(user, courseId, rows),
            [IdleReq EXCEPT !.user = user])

\* The guard's answer with the tags it has set on the request.
Tagged(r, isInstructor, isEnrolled) ==
    [next |-> r.next, status |-> r.status, message |-> r.message, code |-> r.code,
     user |-> r.user, isInstructor |-> isInstructor, isEnrolled |-> isEnrolled]

\* SELECT e.id FROM enrollments e ... WHERE e.user_id = ? AND c.id = ?
\* AND e.status = 'active'
activeEnrollments(userId, courseId) ==
    {e \in DOMAIN enrollments :
        e = <<userId, courseId>> /\ enrollments[e].status = "active"}

\* enrolledOrInstructor that takes every non-owner for enrolled (mutation
\* of enrolledOrInstructorResult).
enrolledOrInstructorResult_noEnrollmentCheck(user, courseId, rows) ==
    IF user = NoUser
    THEN Tagged(Deny(401, "Authentication required.", ""), FALSE, FALSE)
    ELSE IF user.role = "admin"
    THEN Tagged(Pass(user), FALSE, FALSE)
    ELSE IF courseId = 0
    THEN Tagged(Deny(400, "Course ID is required.", ""), FALSE, FALSE)
    ELSE IF ~rows
    THEN Tagged(Deny(500, "Error checking enrollment status.", ""), FALSE, FALSE)
    ELSE IF courseId \notin DOMAIN courses
    THEN Tagged(Deny(404, "Course not found.", ""), FALSE, FALSE)
    ELSE IF courses[courseId].instructor_id = user.id
    THEN Tagged(Pass(user), TRUE, FALSE)
    ELSE Tagged(Pass(user), FALSE, TRUE)

enrolledOrInstructorResult(user, courseId, rows) ==
    IF user = NoUser
    THEN Tagged(Deny(401, "Authentication required.", ""), FALSE, FALSE)
    ELSE IF user.role = "admin"
    THEN Tagged(Pass(user), FALSE, FALSE)
    ELSE IF courseId = 0
    THEN Tagged(Deny(400, "Course ID is required.", ""), FALSE, FALSE)
    ELSE IF ~rows
    THEN Tagged(Deny(500, "Error checking enrollment status.", ""), FALSE, FALSE)
    ELSE IF courseId \notin DOMAIN courses
    THEN Tagged(Deny(404, "Course not found.", ""), FALSE, FALSE)
    ELSE IF courses[courseId].instructor_id = user.id
    THEN Tagged(Pass(user), TRUE, FALSE)
    ELSE IF activeEnrollments(user.id, courseId) = {}
    THEN Tagged(Deny(403, "Access denied. You must be enrolled in this course.", ""),
                FALSE, FALSE)
    ELSE Tagged(Pass(user), FALSE, TRUE)

enrolledOrInstructor(c, user, courseId, rows) ==
    LET r == enrolledOrInstructorResult(user, courseId, rows)
    IN Guarded(c, "enrolledOrInstructor", r,
               [IdleReq EXCEPT !.user = user, !.isInstructor = r.isInstructor,
                               !.isEnrolled = r.isEnrolled])

\* POST /enrollments/:courseId, behind protect.
enrollInCourse(c, courseId) ==
    /\ pc[c] = "protected"
    /\ LET id == req[c].user.id
           e == <<id, courseId>>
           fail(status, message) ==
               /\ Respond(c, Response("enrollInCourse", status, message, "", NoTokens))
               /\ UNCHANGED <<courses, enrollments, lesson_progress, localStorage, originalRequest>>
       IN IF courseId \notin DOMAIN courses
          THEN fail(404, "Course not found")
          ELSE IF ~courses[courseId].is_published
          THEN fail(400, "This course is not available for enrollment")
          ELSE IF courses[courseId].instructor_id = id
          THEN fail(400, "You cannot enroll in your own course")
          ELSE IF e \in DOMAIN enrollments /\ enrollments[e].status \in {"active", "completed"}
          THEN fail(400, "You are already enrolled in this course")
          ELSE IF e \in DOMAIN enrollments
          THEN /\ enrollments' = [enrollments EXCEPT ![e] = [status |-> "active",
                                                              progress |-> 0]]
               /\ UNCHANGED <<courses, lesson_progress>>
               /\ Respond(c, Response("enrollInCourse", 200,
                                      "Enrollment reactivated successfully", "", NoTokens))
          ELSE /\ enrollments' = [x \in DOMAIN enrollments \cup {e} |->
                                     IF x = e THEN [status |-> "active", progress |-> 0]
                                     ELSE enrollments[x]]
               /\ courses' = [courses EXCEPT ![courseId].total_enrollments = @ + 1]
               /\ UNCHANGED lesson_progress
               /\ Respond(c, Response("enrollInCourse", 201, "Enrolled successfully", "",
                                      NoTokens))
    /\ UNCHANGED <<users, nextId, now, nreq, issued, localStorage, originalRequest>>

\* The database the build talks to: the repository holds a PostgreSQL and a
\* MySQL variant of config/database.js, and the controllers' SQL reads
\* differently in the two. In MySQL "active" is a string; in PostgreSQL a
\* double-quoted word names a column, the enrollments table has no column
\* active or cancelled, and the statement fails.
Dialects == {"postgres", "mysql"}

doubleQuotedString(dialect) == dialect = "mysql"

internalError(op) ==
    Response(op, 500, "Something went wrong. Please try again later.", "INTERNAL_ERROR",
             NoTokens)

\* DELETE /enrollments/:courseId, behind protect.
cancelEnrollment(c, courseId, dialect) ==
    /\ pc[c] = "protected"
    /\ LET id == req[c].user.id
           e == <<id, courseId>>
           fail(response) ==
               /\ Respond(c, response)
               /\ UNCHANGED <<courses, enrollments>>
       IN IF courseId \notin DOMAIN courses
          THEN fail(Response("cancelEnrollment", 404, "Course not found", "", NoTokens))
          ELSE IF ~doubleQuotedString(dialect)
          THEN fail(internalError("cancelEnrollment"))
          ELSE IF ~(e \in DOMAIN enrollments /\ enrollments[e].status = "active")
          THEN fail(Response("cancelEnrollment", 400, "You are not enrolled in this course",
                             "", NoTokens))
          ELSE /\ enrollments' = [enrollments EXCEPT ![e].status = "cancelled"]
               /\ courses' = [courses EXCEPT ![courseId].total_enrollments =
                                 IF @ > 0 THEN @ - 1 ELSE @]
               /\ Respond(c, Response("cancelEnrollment", 200,
                                      "Enrollment cancelled successfully", "", NoTokens))
    /\ UNCHANGED <<users, nextId, now, nreq, issued, lesson_progress, localStorage,
                   originalRequest>>

\* The lessons table as the seeder fills it: every lesson published, the
\* first lesson of a course a preview. A lesson goes with its course.
LessonIds == {0, 1, 2, 3}

seedLessons ==
    [l \in {1, 2, 3} |->
        [course_id |-> IF l = 3 THEN 2 ELSE 1,
         is_preview |-> l = 1,
         is_published |-> TRUE]]

lessons == [l \in {l \in DOMAIN seedLessons : seedLessons[l].course_id \in DOMAIN courses} |->
               seedLessons[l]]

\* COUNT(*) of the course's published lessons, and of the user's completed
\* lesson_progress rows of the course in the table given.
totalLessons(courseId) ==
    Cardinality({l \in DOMAIN lessons :
                    lessons[l].course_id = courseId /\ lessons[l].is_published})

completedLessons(table, userId, courseId) ==
    Cardinality({p \in DOMAIN table :
                    p[1] = userId /\ table[p].course_id = courseId /\ table[p].is_completed})

courseProgress(table, userId, courseId) ==
    IF totalLessons(courseId) > 0
    THEN (completedLessons(table, userId, courseId) * 100) \div totalLessons(courseId)
    ELSE 0

\* The status updateLessonProgress writes with the progress it computed.
statusFor(progress) == IF progress >= 100 THEN "completed" ELSE "active"

\* POST /lessons/:id/progress, behind protect.
updateLessonProgress(c, lessonId, is_completed, dialect) ==
    /\ pc[c] = "protected"
    /\ LET id == req[c].user.id
           fail(response) ==
               /\ Respond(c, response)
               /\ UNCHANGED <<enrollments, lesson_progress, localStorage, originalRequest>>
       IN IF lessonId \notin DOMAIN lessons
          THEN fail(Response("updateLessonProgress", 404, "Lesson not found", "", NoTokens))
          ELSE IF ~doubleQuotedString(dialect)
          THEN fail(internalError("updateLessonProgress"))
          ELSE LET courseId == lessons[lessonId].course_id
                   e == <<id, courseId>>
                   p == <<id, lessonId>>
                   table == [x \in DOMAIN lesson_progress \cup {p} |->
                                IF x = p
                                THEN [course_id |-> courseId, is_completed |-> is_completed]
                                ELSE lesson_progress[x]]
                   progress == courseProgress(table, id, courseId)
               IN IF ~(e \in DOMAIN enrollments /\ enrollments[e].status = "active")
                  THEN fail(Response("updateLessonProgress", 403,
                                     "You must be enrolled to track progress", "", NoTokens))
                  ELSE /\ lesson_progress' = table
                       /\ enrollments' = [enrollments EXCEPT ![e] =
                                             [status |-> statusFor(progress),
                                              progress |-> progress]]
                       /\ Respond(c, Response("updateLessonProgress", 200,
                                              "Progress updated successfully", "", NoTokens))
    /\ UNCHANGED <<users, nextId, now, nreq, issued, courses, localStorage, originalRequest>>

\* GET /lessons/:id, behind optionalAuth: the access check of the handler.
getLessonByIdResult(user, lessonId, dialect) ==
    IF lessonId \notin DOMAIN lessons
    THEN Response("getLessonById", 404, "Lesson not found", "", NoTokens)
    ELSE LET lesson == lessons[lessonId]
             isOwnerOrAdmin ==
                 /\ user # NoUser
                 /\ (user.role = "admin" \/ courses[lesson.course_id].instructor_id = user.id)
             e == <<user.id, lesson.course_id>>
             isEnrolled ==
                 /\ user # NoUser
                 /\ ~isOwnerOrAdmin
                 /\ e \in DOMAIN enrollments
                 /\ enrollments[e].status = "active"
         IN IF user # NoUser /\ ~isOwnerOrAdmin /\ ~doubleQuotedString(dialect)
            THEN internalError("getLessonById")
            ELSE IF ~isOwnerOrAdmin /\ ~isEnrolled /\ ~lesson.is_preview
            THEN Response("getLessonById", 403, "You must be enrolled to access this lesson",
                          "", NoTokens)
            ELSE Response("getLessonById", 200, "", "", NoTokens)

getLessonById(c, lessonId, dialect) ==
    /\ pc[c] = "handler"
    /\ Respond(c, getLessonByIdResult(req[c].user, lessonId, dialect))
    /\ UNCHANGED <<users, nextId, now, nreq, issued, courses, enrollments, lesson_progress, localStorage, originalRequest>>

(* ---------------------------- environment ----------------------------- *)
\* A row leaves the users table; the schema cascades the delete to the
\* user's courses, to their enrollments and lesson progress, and to the
\* user's enrollments and lesson progress; ids are never reused.
deleteRow(u) ==
    /\ u \in DOMAIN users
    /\ nextId - 1 - Cardinality(DOMAIN users) < MaxDeletes
    /\ users' = [v \in DOMAIN users \ {u} |-> users[v]]
    /\ courses' = [k \in {k \in DOMAIN courses : courses[k].instructor_id # u} |-> courses[k]]
    /\ enrollments' = [e \in {e \in DOMAIN enrollments :
                                  e[1] # u /\ courses[e[2]].instructor_id # u} |->
                           enrollments[e]]
    /\ lesson_progress' = [p \in {p \in DOMAIN lesson_progress :
                                      /\ p[1] # u
                                      /\ courses[lesson_progress[p].course_id].instructor_id # u} |->
                               lesson_progress[p]]
    /\ UNCHANGED <<nextId, now, pc, req, last, nreq, issued, localStorage, originalRequest>>

Tick(t) ==
    /\ t > now
    /\ now' = t
    /\ UNCHANGED <<users, nextId, pc, req, last, nreq, issued>>
    /\ UNCHANGED <<courses, enrollments, lesson_progress, localStorage, originalRequest>>

Next ==
    \/ \E c \in Slots, e \in Emails : registerSelect(c, e)
    \/ \E c \in Slots, p \in Passwords, r \in RegisterRoles : registerInsert(c, p, r)
    \/ \E c \in Slots, e \in Emails, p \in Passwords : login(c, e, p)
    \/ \E c \in Slots, t \in Presentable : verifyRefreshToken(c, t)
    \/ \E c \in Slots : refreshToken(c)
    \/ \E c \in Slots, t \in Presentable : protect(c, t)
    \/ \E c \in Slots : logout(c)
    \/ \E c \in Slots, p \in Passwords, q \in Passwords : changePassword(c, p, q)
    \/ \E c \in Slots, u \in 1..MaxUsers, a \in BOOLEAN : updateUser(c, u, a)
    \/ \E u \in 1..MaxUsers : deleteRow(u)
    \/ \E t \in Clock : Tick(t)

Spec == Init /\ [][Next]_vars

\* The admin of the seeder has logged in during second 0, before the
\* requests that nreq counts: the state login leaves from Init.
AdminSession == [id |-> 1, iat |-> 0]

InitAdmin ==
    /\ users = [seedUsers EXCEPT ![1].refresh_token =
                    [kind |-> "refresh", id |-> 1, iat |-> 0]]
    /\ nextId = 3
    /\ now = 0
    /\ pc = [c \in Slots |-> "idle"]
    /\ req = [c \in Slots |-> IdleReq]
    /\ last = Response("login", 200, "Login successful", "",
                       [accessToken |-> [kind |-> "access", id |-> 1, iat |-> 0],
                        refreshToken |-> [kind |-> "refresh", id |-> 1, iat |-> 0]])
    /\ nreq = 0
    /\ issued = {AdminSession}
    /\ courses = <<>>
    /\ enrollments = <<>>
    /\ lesson_progress = <<>>
    /\ localStorage = NoTokens
    /\ originalRequest = [r \in Calls |-> NoCall]

\* The requests the routes serve: none of them deletes a row of users
\* (DELETE /users/:id only clears is_active).
NextAdmin ==
    \/ \E c \in Slots, e \in Emails : registerSelect(c, e)
    \/ \E c \in Slots, p \in Passwords, r \in RegisterRoles : registerInsert(c, p, r)
    \/ \E c \in Slots, e \in Emails, p \in Passwords : login(c, e, p)
    \/ \E c \in Slots, t \in Presentable : verifyRefreshToken(c, t)
    \/ \E c \in Slots : refreshToken(c)
    \/ \E c \in Slots, t \in Presentable : protect(c, t)
    \/ \E c \in Slots : logout(c)
    \/ \E c \in Slots, p \in Passwords, q \in Passwords : changePassword(c, p, q)
    \/ \E c \in Slots, u \in 1..MaxUsers, a \in BOOLEAN : updateUser(c, u, a)
    \/ \E t \in Clock : Tick(t)

SpecAdmin == InitAdmin /\ [][NextAdmin]_vars

\* The middleware with a store that may fail, from the state the admin's
\* login leaves: no registration, no change of password.
NextStore ==
    \/ \E c \in Slots, e \in Emails, p \in Passwords : login(c, e, p)
    \/ \E c \in Slots, t \in Presentable : protect(c, t)
    \/ \E c \in Slots, t \in Presentable : protectStoreDown(c, t)
    \/ \E c \in Slots, t \in Presentable : verifyRefreshToken(c, t)
    \/ \E c \in Slots, t \in Presentable : verifyRefreshTokenStoreDown(c, t)
    \/ \E c \in Slots : refreshToken(c)
    \/ \E c \in Slots, t \in Presentable, rows \in BOOLEAN : optionalAuth(c, t, rows)
    \/ \E c \in Slots : handler(c)
    \/ \E c \in Slots : logout(c)
    \/ \E c \in Slots, u \in 1..MaxUsers, a \in BOOLEAN : updateUser(c, u, a)
    \/ \E u \in 1..MaxUsers : deleteRow(u)
    \/ \E t \in Clock : Tick(t)

SpecStore == InitAdmin /\ [][NextStore]_vars

\* The guards and the enrollment of a course, from the state in which the
\* seeder's admin, student and instructor exist and the latter two have
\* logged in during second 0.  Course 1 is the instructor's and published;
\* the owner of course 2 (the instructor, or the student, who owns it if an
\* admin has changed the role of its instructor) and its publication are
\* drawn.
CourseIds == {0, 1, 2, 3}

seedCourses(owner, is_published) ==
    [k \in {1, 2} |->
        [instructor_id |-> IF k = 1 THEN 3 ELSE owner,
         is_published |-> IF k = 1 THEN TRUE ELSE is_published,
         total_enrollments |-> 0]]

InitRbac ==
    /\ users = [u \in {1, 2, 3} |->
                   IF u = 3
                   THEN [email |-> InstructorEmail, password |-> bcryptHash(SeedPassword),
                         role |-> "instructor", is_active |-> TRUE,
                         refresh_token |-> [kind |-> "refresh", id |-> 3, iat |-> 0]]
                   ELSE IF u = 2
                   THEN [seedUsers[2] EXCEPT !.refresh_token =
                            [kind |-> "refresh", id |-> 2, iat |-> 0]]
                   ELSE seedUsers[1]]
    /\ nextId = 4
    /\ now = 0
    /\ pc = [c \in Slots |-> "idle"]
    /\ req = [c \in Slots |-> IdleReq]
    /\ last = NoResponse
    /\ nreq = 0
    /\ issued = {[id |-> 2, iat |-> 0], [id |-> 3, iat |-> 0]}
    /\ \E owner \in {2, 3}, is_published \in BOOLEAN :
          courses = seedCourses(owner, is_published)
    /\ enrollments = <<>>
    /\ lesson_progress = <<>>
    /\ localStorage = NoTokens
    /\ originalRequest = [r \in Calls |-> NoCall]

NextRbac ==
    \/ \E c \in Slots, t \in Presentable : protect(c, t)
    \/ \E c \in Slots, k \in CourseIds : enrollInCourse(c, k)
    \/ \E c \in Slots, m \in MinRoles, u \in Identities : authorizeMinRole(c, m, u)
    \/ \E c \in Slots, roles \in RoleSets, u \in Identities : authorizeRoles(c, roles, u)
    \/ \E c \in Slots, u \in Identities, r \in 0..3, found \in BOOLEAN :
          ownerOrAdmin(c, u, r, found)
    \/ \E c \in Slots, u \in Identities, k \in CourseIds, rows \in BOOLEAN :
          courseOwnerOrAdmin(c, u, k, rows)
    \/ \E c \in Slots, u \in Identities, k \in CourseIds, rows \in BOOLEAN :
          enrolledOrInstructor(c, u, k, rows)
    \/ \E c \in Slots : handler(c)

SpecRbac == InitRbac /\ [][NextRbac]_vars

\* Requests with their headers and cookies, to the routes behind protect and
\* behind optionalAuth.
NextRequest ==
    \/ \E c \in Slots, e \in Emails, p \in Passwords : login(c, e, p)
    \/ \E c \in Slots, h \in Headers, k \in Cookies : protectRequest(c, h, k)
    \/ \E c \in Slots, h \in Headers, k \in Cookies, rows \in BOOLEAN :
          optionalAuthRequest(c, h, k, rows)
    \/ \E c \in Slots : handler(c)
    \/ \E c \in Slots : logout(c)
    \/ \E c \in Slots, u \in 1..MaxUsers, a \in BOOLEAN : updateUser(c, u, a)
    \/ \E t \in Clock : Tick(t)

SpecRequest == InitAdmin /\ [][NextRequest]_vars

\* Registrations with every role a body can name, and the sessions of the
\* users they create.
NextRegister ==
    \/ \E c \in Slots, role \in RoleInputs : registerInvalid(c, role)
    \/ \E c \in Slots, e \in Emails : registerSelect(c, e)
    \/ \E c \in Slots, p \in Passwords, role \in RoleInputs : registerWithRole(c, p, role)
    \/ \E c \in Slots, e \in Emails, p \in Passwords : login(c, e, p)
    \/ \E c \in Slots, t \in Presentable : verifyRefreshToken(c, t)
    \/ \E c \in Slots : refreshToken(c)

SpecRegister == Init /\ [][NextRegister]_vars

\* The admin routes on users, with every kind of value a body can give
\* is_active.
NextUsers ==
    \/ \E c \in Slots, e \in Emails, p \in Passwords : login(c, e, p)
    \/ \E c \in Slots, t \in Presentable : protect(c, t)
    \/ \E c \in Slots, u \in 1..MaxUsers, v \in BodyValues : updateUserWith(c, u, v)
    \/ \E c \in Slots, u \in 1..MaxUsers : deleteUser(c, u)
    \/ \E c \in Slots : logout(c)

SpecUsers == InitAdmin /\ [][NextUsers]_vars

(* ------------------------------ claims -------------------------------- *)
RefreshTokenOf(p) == [kind |-> "refresh", id |-> p.id, iat |-> p.iat]
AccessTokenOf(p) == [kind |-> "access", id |-> p.id, iat |-> p.iat]

Accepts(token) == verifyRefreshTokenResult(token).next

TokenMismatch == "Invalid refresh token. Please log in again."

\* C1: a refresh token is accepted by Refresh exactly once: right after a
\* Refresh has exchanged T1 for T2, verifyRefreshToken rejects T1, and accepts
\* T2 as long as the user's row is there and active.
C1_RefreshTokenAcceptedOnce ==
    [][\A c \in Slots : \A t1 \in {req[c].token}, t2 \in {last'.refreshToken} :
          refreshToken(c) =>
              /\ ~Accepts(t1)'
              /\ (t1.id \in DOMAIN users /\ users[t1.id].is_active) => Accepts(t2)']_vars

\* C2: of two Refresh requests in flight that presented the same stored
\* token, at most one is answered 200: refreshToken never serves a request
\* whose token a concurrent request has already exchanged.
C2_ConcurrentRefreshAtMostOne ==
    [][\A c \in Slots : refreshToken(c) => ~req[c].stale]_vars

Deactivated == "Your account has been deactivated. Please contact support."

Inactive(u) == u \in DOMAIN users /\ ~users[u].is_active

\* The request of slot c has been answered 401 and nothing but the response
\* has changed.
RefusedUnchanged(c) ==
    /\ last'.status = 401
    /\ last'.accessToken = NoToken /\ last'.refreshToken = NoToken
    /\ pc'[c] = "idle"
    /\ users' = users /\ issued' = issued /\ nextId' = nextId

\* C4: while a user's is_active is false, every login with the user's email
\* (whatever the password), every protect with a token carrying the user's
\* id and every verifyRefreshToken with such a token (the stored one
\* included) is answered 401 and changes neither the users table nor the
\* tokens issued, so the same attempt made again is answered the same.
C4_InactiveUserRefused ==
    [][\A c \in Slots :
          /\ \A e \in Emails, p \in Passwords :
                ((\E u \in usersByEmail(e) : Inactive(u)) /\ login(c, e, p))
                    => /\ RefusedUnchanged(c)
                       /\ loginResult(e, p)' = loginResult(e, p)
          /\ \A t \in Presentable :
                (Inactive(t.id) /\ protect(c, t))
                    => /\ RefusedUnchanged(c)
                       /\ protectResult(t)' = protectResult(t)
          /\ \A t \in Presentable :
                (Inactive(t.id) /\ verifyRefreshToken(c, t))
                    => /\ RefusedUnchanged(c)
                       /\ verifyRefreshTokenResult(t)' = verifyRefreshTokenResult(t)]_vars

\* protect has refused the unexpired access token of a deactivated user
\* whose row still holds the refresh token issued with it.
C4_Witness ==
    /\ last.op = "protect"
    /\ last.message = Deactivated
    /\ \E p \in issued :
          /\ Inactive(p.id)
          /\ jwtVerify(AccessTokenOf(p), "access") = "ok"
          /\ users[p.id].refresh_token = RefreshTokenOf(p)

\* C5: a Register whose email a row already holds is answered 400 'Email
\* already registered', inserts nothing and leaves every row, the stored
\* refresh tokens included, as it was; no step leaves two rows with one email.
C5_DuplicateEmailRefused ==
    [][/\ \A c \in Slots, e \in Emails :
             (usersByEmail(e) # {} /\ registerSelect(c, e))
                 => /\ last'.op = "register"
                    /\ last'.status = 400
                    /\ last'.message = "Email already registered"
                    /\ pc'[c] = "idle"
                    /\ users' = users
                    /\ nextId' = nextId
       /\ \A e \in Emails : Cardinality(usersByEmail(e))' <= 1]_vars

\* A Register has been answered with the conflict error after an earlier
\* Register had inserted a row, which still holds the refresh token stored
\* with it.
C5_Witness ==
    /\ last.op = "register"
    /\ last.code = "EMAIL_EXISTS"
    /\ \E u \in DOMAIN users :
          /\ u >= 3
          /\ users[u].refresh_token = [kind |-> "refresh", id |-> u, iat |-> 0]

\* The response carries the token pair signed now for user u, and the row
\* of u holds the refresh token of that pair.
ReturnsStoredPair(u) ==
    /\ last'.accessToken = [kind |-> "access", id |-> u, iat |-> now]
    /\ last'.refreshToken = [kind |-> "refresh", id |-> u, iat |-> now]
    /\ u \in DOMAIN users'
    /\ users'[u].refresh_token = last'.refreshToken

\* C6: every login answered 200 and every register answered 201 returns an
\* access token and a refresh token of the user logged in or created, and
\* the refresh token stored in that user's row is the one returned.
C6_TokensReturnedAndStored ==
    [][\A c \in Slots :
          /\ \A e \in Emails, p \in Passwords :
                (last'.status = 200 /\ login(c, e, p))
                    => \E u \in usersByEmail(e) : ReturnsStoredPair(u)
          /\ \A p \in Passwords, r \in RegisterRoles :
                (last'.status = 201 /\ registerInsert(c, p, r))
                    => /\ ReturnsStoredPair(nextId)
                       /\ users'[nextId].email = req[c].email]_vars

\* A login has been answered 200 for a user whose row held the refresh
\* token of an earlier second: the login has overwritten it.
C6_Witness ==
    /\ last.op = "login"
    /\ last.status = 200
    /\ last.refreshToken.iat > 0
    /\ [id |-> last.refreshToken.id, iat |-> 0] \in issued
    /\ users[last.refreshToken.id].refresh_token = last.refreshToken

\* C7: logout leaves NULL in the refresh_token of the authenticated user
\* whatever the row held, so that verifyRefreshToken rejects every refresh
\* token issued to that user so far; the same UPDATE applied again to the
\* table logout leaves changes nothing.
C7_LogoutRevokes ==
    [][\A c \in Slots : \A id \in {req[c].user.id} :
          logout(c) =>
              /\ last'.status = 200
              /\ id \in DOMAIN users => users'[id].refresh_token = NullToken
              /\ \A p \in issued : p.id = id => ~Accepts(RefreshTokenOf(p))'
              /\ setRefreshToken(id, NullToken)' = users'
              /\ \A u \in DOMAIN users \ {id} : users'[u] = users[u]]_vars

\* A logout has been answered for a user who had logged in: the token of
\* that login is unexpired, the row no longer holds it, Refresh rejects it.
C7_Witness ==
    /\ last.op = "logout"
    /\ \E p \in issued :
          /\ p.id \in DOMAIN users
          /\ users[p.id].is_active
          /\ users[p.id].refresh_token = NullToken
          /\ jwtVerify(RefreshTokenOf(p), "refresh") = "ok"
          /\ ~Accepts(RefreshTokenOf(p))

\* What every successful changePassword leaves besides the password: NULL
\* in the refresh_token of the user, every refresh token issued to the user
\* rejected, and a response without tokens.
SessionsRevoked(id) ==
    /\ users'[id].refresh_token = NullToken
    /\ \A t \in issued : t.id = id => ~Accepts(RefreshTokenOf(t))'
    /\ last'.accessToken = NoToken
    /\ last'.refreshToken = NoToken

\* C8 (as stated): after a changePassword answered 200 the stored password
\* is the new one, login with the old password fails and login with the new
\* one succeeds, the stored refresh token is NULL, every refresh token
\* issued before is rejected, and the response carries no tokens.
C8_OldPasswordFails ==
    [][\A c \in Slots, p \in Passwords, q \in Passwords :
          (last'.status = 200 /\ changePassword(c, p, q)) =>
              \A id \in {req[c].user.id} : \A e \in {users[id].email} :
                  /\ users'[id].password = bcryptHash(q)
                  /\ ~loginResult(e, p)'.next
                  /\ loginResult(e, q)'.next
                  /\ SessionsRevoked(id)]_vars

\* C8 (amended): after a changePassword answered 200 the stored hash is the
\* hash of the new password; login succeeds exactly with the passwords that
\* agree with the new one on the first 72 bytes, and only while the account
\* is active (so the old password fails unless it agrees with the new one on
\* those bytes); the stored refresh token is NULL, every refresh token
\* issued before is rejected, and the response carries no tokens.
C8_NewHashStored ==
    [][\A c \in Slots, p \in Passwords, q \in Passwords :
          (last'.status = 200 /\ changePassword(c, p, q)) =>
              \A id \in {req[c].user.id} : \A e \in {users[id].email} :
                  /\ users'[id].password = bcryptHash(q)
                  /\ \A x \in Passwords :
                        loginResult(e, x)'.next
                            <=> (users[id].is_active /\ x.first72 = q.first72)
                  /\ SessionsRevoked(id)]_vars

\* A changePassword has been answered 200 for a user with tokens issued,
\* whose row now holds another hash than the seeder's or the one registered
\* with, and no refresh token.
C8_Witness ==
    /\ last.op = "changePassword"
    /\ last.status = 200
    /\ \E t \in issued :
          /\ t.id \in {1, 2}
          /\ t.id \in DOMAIN users
          /\ users[t.id].password # bcryptHash(SeedPassword)
          /\ users[t.id].refresh_token = NullToken
          /\ ~Accepts(RefreshTokenOf(t))

\* protect has passed the request of slot c on with the row of u attached.
Attached(c, u) ==
    /\ pc'[c] = "protected"
    /\ req'[c].user = Identity(u)
    /\ last' = last

\* protect has answered the request of slot c with 401 and no identity.
Refused(c) ==
    /\ pc'[c] = "idle"
    /\ req'[c].user = NoUser
    /\ last'.op = "protect"
    /\ last'.status = 401

\* C9: for every existing active user, protect accepts the access token
\* generateTokens signs for the user's id and attaches exactly that user,
\* from the second it is signed in until its expiry; from the second
\* iat + 7d on protect refuses it and attaches nothing.
C9_AccessTokenRoundTrip ==
    [][/\ \A u \in DOMAIN users :
             users[u].is_active
                 => protectResult(generateTokens(u).accessToken) = Pass(Identity(u))
       /\ \A c \in Slots, p \in issued :
             (p.id \in DOMAIN users /\ users[p.id].is_active /\ protect(c, AccessTokenOf(p)))
                 => IF now < p.iat + AccessTTL
                    THEN Attached(c, p.id)
                    ELSE Refused(c) /\ last'.code = "TOKEN_EXPIRED"]_vars

\* protect has refused, as expired, the access token of an existing active
\* user at the very second of its expiry.
C9_Witness ==
    /\ last.op = "protect"
    /\ last.code = "TOKEN_EXPIRED"
    /\ \E p \in issued :
          /\ p.id \in DOMAIN users
          /\ users[p.id].is_active
          /\ now = p.iat + AccessTTL

\* The token is an access token of this server, unexpired, of a row that
\* exists and is active.
ValidAccess(t) ==
    /\ t.kind = "access"
    /\ now < t.iat + AccessTTL
    /\ t.id \in DOMAIN users
    /\ users[t.id].is_active

\* C10: protect passes the request on, with the user of the token attached,
\* if and only if the token verifies, its user exists and is active; in
\* every other case it answers 401 and attaches nothing, with code
\* TOKEN_EXPIRED for an expired access token, INVALID_TOKEN for a token that
\* is malformed or signed with another secret, and 'User no longer exists.'
\* for a valid token whose row has been deleted.
C10_ProtectPassesIffValid ==
    [][\A c \in Slots, t \in Presentable :
          protect(c, t) =>
              /\ ValidAccess(t) => Attached(c, t.id)
              /\ ~ValidAccess(t) => Refused(c)
              /\ (t.kind = "access" /\ now >= t.iat + AccessTTL)
                     => last'.code = "TOKEN_EXPIRED"
              /\ t.kind \in {"garbage", "refresh"} => last'.code = "INVALID_TOKEN"
              /\ (t.kind = "access" /\ now < t.iat + AccessTTL /\ t.id \notin DOMAIN users)
                     => last'.message = "User no longer exists."]_vars

\* protect has refused the unexpired access token of a user whose row has
\* been deleted.
C10_Witness ==
    /\ last.op = "protect"
    /\ last.message = "User no longer exists."
    /\ \E p \in issued :
          /\ p.id \notin DOMAIN users
          /\ jwtVerify(AccessTokenOf(p), "access") = "ok"

\* C11: optionalAuth never answers a request itself: whatever the token
\* (none, malformed, expired, signed with another secret, of a deleted or a
\* deactivated user) and whether or not the store answers, it hands the
\* request to the next handler in one step, sends nothing and changes
\* nothing; req.user is set only if the token is an unexpired access token
\* of an existing active user, and then to that user.
C11_OptionalAuthNeverRejects ==
    [][\A c \in Slots, t \in Presentable, rows \in BOOLEAN :
          optionalAuth(c, t, rows) =>
              /\ pc'[c] = "handler"
              /\ last' = last
              /\ users' = users
              /\ req'[c].user # NoUser
                     => (ValidAccess(t) /\ rows /\ req'[c].user = Identity(t.id))]_vars

\* optionalAuth has handed on, without an identity, a request while the
\* unexpired access token of a deactivated user exists and nothing has been
\* answered since the deactivation.
C11_Witness ==
    /\ \E p \in issued : Inactive(p.id) /\ jwtVerify(AccessTokenOf(p), "access") = "ok"
    /\ \E c \in Slots : pc[c] = "handler" /\ req[c].user = NoUser
    /\ last.op = "updateUser"

\* The rank the role table gives a role: every role outside the table ranks 0.
rank(role) ==
    CASE role = "student" -> 1
      [] role = "instructor" -> 2
      [] role = "admin" -> 3
      [] OTHER -> 0

\* C12: authorizeMinRole(min), for each of the three roles as min, admits
\* an authenticated identity exactly when rank(role) >= rank(min), every
\* role outside the table ranking 0: it hands the request on with the
\* identity untouched, or answers 403.
C12_MinRoleAdmitsByRank ==
    [][\A c \in Slots, m \in MinRoles, u \in Identities \ {NoUser} :
          authorizeMinRole(c, m, u) =>
              IF rank(u.role) >= rank(m)
              THEN pc'[c] = "handler" /\ req'[c].user = u
              ELSE pc'[c] = "idle" /\ last'.status = 403]_vars

\* enrolledOrInstructor has handed the request of slot c on, tagged so.
Allowed(c, user, isInstructor, isEnrolled) ==
    /\ pc'[c] = "handler"
    /\ req'[c].user = user
    /\ req'[c].isInstructor = isInstructor
    /\ req'[c].isEnrolled = isEnrolled

\* C13: enrolledOrInstructor answers 403 to a student without an active
\* enrollment in the course; a student whom enrollInCourse has just
\* enrolled is allowed by the same check, with req.isEnrolled set; the
\* owner of the course is allowed with req.isInstructor set; an admin is
\* allowed whether or not the store answers; and no request ever carries
\* both tags.
C13_EnrolledOrInstructor ==
    [][/\ \A c \in Slots, u \in Identities \ {NoUser}, k \in DOMAIN courses,
             rows \in BOOLEAN :
             enrolledOrInstructor(c, u, k, rows) =>
                 /\ ~(req'[c].isInstructor /\ req'[c].isEnrolled)
                 /\ u.role = "admin" => Allowed(c, u, FALSE, FALSE)
                 /\ (u.role # "admin" /\ rows /\ courses[k].instructor_id = u.id)
                        => Allowed(c, u, TRUE, FALSE)
                 /\ (u.role = "student" /\ rows /\ courses[k].instructor_id # u.id)
                        => IF <<u.id, k>> \in DOMAIN enrollments
                              /\ enrollments[<<u.id, k>>].status = "active"
                           THEN Allowed(c, u, FALSE, TRUE)
                           ELSE pc'[c] = "idle" /\ last'.status = 403
       /\ \A c \in Slots, k \in CourseIds : \A u \in {req[c].user} :
             (last'.status \in {200, 201} /\ u.role = "student" /\ enrollInCourse(c, k))
                 => /\ enrolledOrInstructorResult(u, k, TRUE)'.next
                    /\ enrolledOrInstructorResult(u, k, TRUE)'.isEnrolled
                    /\ ~enrolledOrInstructorResult(u, k, TRUE)'.isInstructor
                    /\ ~enrolledOrInstructorResult(u, k, TRUE).next
                    /\ enrolledOrInstructorResult(u, k, TRUE).status = 403
       /\ \A c \in Slots : ~(req'[c].isInstructor /\ req'[c].isEnrolled)]_vars

\* The student, answered 201 by enrollInCourse, has made the check again
\* and has been handed on with req.isEnrolled set.
C13_Witness ==
    /\ last.op = "enrollInCourse"
    /\ last.status = 201
    /\ \E c \in Slots :
          /\ pc[c] = "handler"
          /\ req[c].user = Identity(2)
          /\ req[c].isEnrolled
          /\ ~req[c].isInstructor

\* The answer r of a guard hands the request on with the identity.
HandsOn(r, user) == r.next /\ r.user = user

Forbids(r) == ~r.next /\ r.status = 403

\* C14: ownerOrAdmin and courseOwnerOrAdmin hand an admin on whether or not
\* the ownership lookup answers; they hand a non-admin on only if the user
\* id the lookup returns (the instructor_id of the course) is the id of the
\* identity, and answer 403 when the lookup returns another id;
\* courseOwnerOrAdmin answers 403 to every student, the owner of the course
\* included.
C14_OwnerOrAdmin ==
    \A u \in Identities \ {NoUser} :
        /\ \A r \in 0..3, found \in BOOLEAN :
              LET x == ownerOrAdminResult(u, r, found)
              IN /\ u.role = "admin" => HandsOn(x, u)
                 /\ (u.role # "admin" /\ x.next) => (found /\ r = u.id)
                 /\ (u.role # "admin" /\ found) =>
                        IF r = u.id THEN HandsOn(x, u) ELSE Forbids(x)
        /\ \A k \in CourseIds, rows \in BOOLEAN :
              LET x == courseOwnerOrAdminResult(u, k, rows)
              IN /\ u.role = "admin" => HandsOn(x, u)
                 /\ (u.role # "admin" /\ x.next)
                        => (rows /\ k \in DOMAIN courses /\ courses[k].instructor_id = u.id)
                 /\ u.role = "student" => Forbids(x)
                 /\ (u.role = "instructor" /\ rows /\ k \in DOMAIN courses) =>
                        IF courses[k].instructor_id = u.id
                        THEN HandsOn(x, u)
                        ELSE Forbids(x)

\* courseOwnerOrAdmin has refused a student while a student owns a course.
C14_Witness ==
    /\ last.op = "courseOwnerOrAdmin"
    /\ last.status = 403
    /\ last.message = "Only instructors and admins can perform this action."
    /\ \E k \in DOMAIN courses : users[courses[k].instructor_id].role = "student"

\* What login sends for the answer r.
loginResponse(r) == Response("login", r.status, r.message, r.code, NoTokens)

\* C15: the response of login to an email no row holds and its response to
\* the email of an active user with a password that does not match are the
\* same response, 401 with the message 'Invalid email or password'.
C15_LoginFailuresIndistinguishable ==
    \A e1 \in Emails, e2 \in Emails, p1 \in Passwords, p2 \in Passwords :
        (/\ usersByEmail(e1) = {}
         /\ \E u \in usersByEmail(e2) :
               users[u].is_active /\ ~bcryptCompare(p2, users[u].password))
            => /\ loginResponse(loginResult(e1, p1)) = loginResponse(loginResult(e2, p2))
               /\ loginResult(e1, p1).status = 401
               /\ loginResult(e1, p1).message = "Invalid email or password"

\* A login has been refused with that response while there is both an
\* email without a row and an active user whose password is another one
\* than every password but the seeder's.
C15_Witness ==
    /\ last.op = "login"
    /\ last.status = 401
    /\ last.message = "Invalid email or password"
    /\ \E e \in Emails : usersByEmail(e) = {}
    /\ \E u \in DOMAIN users :
          users[u].is_active /\ ~bcryptCompare(LongPassword, users[u].password)

\* C16: in every reachable store and at every time, no refresh token of an
\* issued pair is accepted by protect or by optionalAuth (whether its SELECT
\* answers or throws), and no access token of an issued pair is accepted by
\* verifyRefreshToken.
C16_TokenClassesNotInterchangeable ==
    \A p \in issued :
        /\ ~protectResult(RefreshTokenOf(p)).next
        /\ \A rows \in BOOLEAN : optionalAuthResult(RefreshTokenOf(p), rows) = NoUser
        /\ ~Accepts(AccessTokenOf(p))

\* protect has just answered 'Invalid token' while some issued pair is in
\* full force: its access token passes protect and optionalAuth, its refresh
\* token is the stored one and passes verifyRefreshToken, and protect
\* answers that refresh token with 'Invalid token'.
C16_Witness ==
    /\ last.op = "protect"
    /\ last.code = "INVALID_TOKEN"
    /\ \E p \in issued :
          /\ protectResult(AccessTokenOf(p)).next
          /\ optionalAuthResult(AccessTokenOf(p), TRUE) # NoUser
          /\ Accepts(RefreshTokenOf(p))
          /\ protectResult(RefreshTokenOf(p)).code = "INVALID_TOKEN"

\* The user lookup of the middleware is reached: the token presented
\* verifies as one of the class `kind`.
LookupReached(token, kind) == token # NoToken /\ jwtVerify(token, kind) = "ok"

\* C17: when the user lookup throws during protect or verifyRefreshToken,
\* the request is answered 500, not 401, and no identity is attached.
C17_StoreFailureIs500 ==
    [][\A c \in Slots : \A token \in Presentable :
          /\ (LookupReached(token, "access") /\ protectStoreDown(c, token))
                => (last'.status = 500 /\ pc'[c] = "idle" /\ req'[c].user = NoUser)
          /\ (LookupReached(token, "refresh") /\ verifyRefreshTokenStoreDown(c, token))
                => (last'.status = 500 /\ pc'[c] = "idle" /\ req'[c].user = NoUser)]_vars

\* The part of C17 that is about protect alone.
C17_ProtectStoreFailureIs500 ==
    [][\A c \in Slots : \A token \in Presentable :
          (LookupReached(token, "access") /\ protectStoreDown(c, token))
             => (last'.status = 500 /\ pc'[c] = "idle" /\ req'[c].user = NoUser)]_vars

\* The row without its stored refresh token.
WithoutSession(row) == [row EXCEPT !.refresh_token = NullToken]

\* The step changes stored refresh tokens and nothing else of the store or
\* the clock.
OnlySessionsChange ==
    /\ users' # users
    /\ now' = now
    /\ DOMAIN users' = DOMAIN users
    /\ \A u \in DOMAIN users : WithoutSession(users'[u]) = WithoutSession(users[u])

\* The step is the handler of Logout, Refresh or ChangePassword.
SessionHandlerStep ==
    \E c \in Slots :
        /\ pc[c] \in {"protected", "refreshToken"}
        /\ \/ logout(c)
           \/ refreshToken(c)
           \/ \E cur \in Passwords, new \in Passwords : changePassword(c, cur, new)

\* C18: between two stores that differ only in stored refresh tokens protect
\* answers every token alike, and a step of logout, refreshToken or
\* changePassword leaves unchanged whether protect passes a token.
C18_ProtectIgnoresSessions ==
    [][/\ OnlySessionsChange
          => \A t \in Presentable' : protectResult(t)' = protectResult(t)
       /\ SessionHandlerStep
          => \A t \in Presentable' : protectResult(t)'.next = protectResult(t).next]_vars

\* Logout has just cleared the stored refresh token of a user whose issued
\* access token protect still passes.
C18_Witness ==
    /\ last.op = "logout"
    /\ \E p \in issued :
          /\ p.id \in DOMAIN users
          /\ users[p.id].refresh_token = NullToken
          /\ protectResult(AccessTokenOf(p)).next

\* C19: a stored refresh token that is null (logout and a successful
\* changePassword are the handlers that write null) becomes a token again
\* only by a successful login of that user.
C19_RevokedUntilLogin ==
    [][\A u \in DOMAIN users \cap DOMAIN users' :
          (users[u].refresh_token = NullToken /\ users'[u].refresh_token # NullToken)
             => /\ last'.op = "login"
                /\ last'.status = 200
                /\ last'.refreshToken = users'[u].refresh_token]_vars

\* C20: when the INSERT of register meets an email that a concurrent
\* register has stored since this request's SELECT, no second row with the
\* email is written and the request is answered 400; and no two rows ever
\* hold the same email.
C20_ConcurrentRegisterLoserGets400 ==
    [][/\ \A c \in Slots :
             (/\ pc[c] = "registerInsert"
              /\ usersByEmail(req[c].email) # {}
              /\ \E p \in Passwords, r \in RegisterRoles : registerInsert(c, p, r))
                => (last'.op = "register" /\ last'.status = 400 /\ users' = users)
       /\ \A u \in DOMAIN users', v \in DOMAIN users' :
             users'[u].email = users'[v].email => u = v]_vars

\* The part of C20 that is about the store alone: no two rows hold the same
\* email.
C20_AtMostOneRecord ==
    \A u \in DOMAIN users, v \in DOMAIN users :
        users[u].email = users[v].email => u = v

\* The token the request carries: the bearer token of the header when the
\* header supplies one, otherwise the accessToken cookie, otherwise none.
carried(header, cookie) ==
    IF header.scheme = "Bearer" /\ ~falsy(secondField(header))
    THEN secondField(header)
    ELSE IF ~falsy(cookie) THEN cookie
    ELSE NoToken

\* C21: protect verifies the token the request carries, the header's bearer
\* token first and the cookie whenever the header supplies none; it answers
\* 'Authentication required' only to a request that carries no token.
C21_TokenFromHeaderOrCookie ==
    [][\A c \in Slots, h \in Headers, k \in Cookies :
          protectRequest(c, h, k)
             => /\ protect(c, carried(h, k))
                /\ (last'.message = "Authentication required. Please log in."
                       => carried(h, k) = NoToken)]_vars

\* The part of C21 about a header that is absent or supplies a bearer token.
C21_HeaderFirstThenCookie ==
    [][\A c \in Slots, h \in Headers, k \in Cookies :
          (/\ \/ h = NoHeader
              \/ h.scheme = "Basic"
              \/ h.scheme = "Bearer" /\ ~falsy(secondField(h))
           /\ protectRequest(c, h, k))
             => protect(c, carried(h, k))]_vars

\* The step is a changePassword, a login or a verifyRefreshToken that
\* answers with a failure.
FailedSessionStep ==
    /\ last'.status \in {401, 404}
    /\ \E c \in Slots :
          \/ \E cur \in Passwords, new \in Passwords : changePassword(c, cur, new)
          \/ \E e \in Emails, p \in Passwords : login(c, e, p)
          \/ \E t \in Presentable : verifyRefreshToken(c, t)

\* C22: a changePassword refused for a wrong current password, a login
\* refused for an unknown email, a deactivated account or a wrong password,
\* and a Refresh refused by verifyRefreshToken leave every row of users, its
\* password hash and its stored refresh token included, as it was.
C22_FailedOperationChangesNothing ==
    [][FailedSessionStep => /\ users' = users
                            /\ issued' = issued
                            /\ last'.accessToken = NoToken
                            /\ last'.refreshToken = NoToken]_vars

\* A changePassword has just been refused for its current password while
\* the user's row holds a stored refresh token.
C22_Witness ==
    /\ last.op = "changePassword"
    /\ last.status = 401
    /\ \E u \in DOMAIN users : users[u].refresh_token # NullToken
    /\ \E u \in DOMAIN users : ~users[u].is_active

\* C23: authorize(...roles) hands the request on exactly when an identity is
\* attached whose role is one of roles, answers 401 without an identity and
\* 403 to a role outside roles; adminOnly admits only admin, and
\* instructorAndAbove admits exactly the identities that
\* authorizeMinRole('instructor') admits.
C23_AuthorizeByMembership ==
    [][\A c \in Slots, roles \in RoleSets, u \in Identities :
          authorizeRoles(c, roles, u)
             => /\ IF u = NoUser
                   THEN pc'[c] = "idle" /\ last'.status = 401
                   ELSE IF u.role \in roles
                   THEN pc'[c] = "handler" /\ req'[c].user = u
                   ELSE pc'[c] = "idle" /\ last'.status = 403
                /\ adminOnly(u).next <=> (u # NoUser /\ u.role = "admin")
                /\ instructorAndAbove(u).next <=> authorizeMinRoleResult("instructor", u).next]_vars

\* The part of C23 that is about authorize and adminOnly alone.
C23_AuthorizeAlone ==
    [][\A c \in Slots, roles \in RoleSets, u \in Identities :
          authorizeRoles(c, roles, u)
             => /\ IF u = NoUser
                   THEN pc'[c] = "idle" /\ last'.status = 401
                   ELSE IF u.role \in roles
                   THEN pc'[c] = "handler" /\ req'[c].user = u
                   ELSE pc'[c] = "idle" /\ last'.status = 403
                /\ adminOnly(u).next <=> (u # NoUser /\ u.role = "admin")
                /\ u # Inherited =>
                      (instructorAndAbove(u).next <=> authorizeMinRoleResult("instructor", u).next)]_vars

\* C24: a register creates a row whose role is student when the body names
\* no role and otherwise the student or instructor the body names; a body
\* with another role creates nothing; so no step adds an admin.
C24_RegisterNeverCreatesAdmin ==
    [][/\ \A u \in DOMAIN users' :
             users'[u].role = "admin" => (u \in DOMAIN users /\ users[u].role = "admin")
       /\ \A c \in Slots, p \in Passwords, role \in RoleInputs :
             /\ (pc[c] = "registerInsert" /\ registerWithRole(c, p, role)
                 /\ last'.status = 201)
                   => /\ users'[nextId].role \in {"student", "instructor"}
                      /\ role = NoRole => users'[nextId].role = "student"
                      /\ role # NoRole => users'[nextId].role = role
             /\ (pc[c] = "idle" /\ registerInvalid(c, role))
                   => (users' = users /\ last'.status = 400)]_vars

\* Register has created an instructor, and a later register has been
\* refused by the validator.
C24_Witness ==
    /\ last.op = "register"
    /\ last.message = "Validation failed"
    /\ \E u \in DOMAIN users : u >= 3 /\ users[u].role = "instructor"

\* C25: updateUser with a false value for is_active and deleteUser, called
\* by an admin on the admin's own id, answer 400 and leave the users as they
\* were; so no such call takes the calling admin's active flag away.
C25_AdminCannotDeactivateSelf ==
    [][\A c \in Slots :
          (pc[c] = "protected" /\ req[c].user.role = "admin"
           /\ req[c].user.id \in DOMAIN users)
             => /\ \A v \in BodyValues :
                      (~v.stored /\ updateUserWith(c, req[c].user.id, v))
                         => (last'.status = 400 /\ users' = users)
                /\ deleteUser(c, req[c].user.id)
                      => (last'.status = 400 /\ users' = users)]_vars

\* The part of C25 about the JSON value false and about deleteUser.
C25_SelfRefusedForFalse ==
    [][\A c \in Slots :
          (pc[c] = "protected" /\ req[c].user.role = "admin"
           /\ req[c].user.id \in DOMAIN users)
             => /\ updateUser(c, req[c].user.id, FALSE)
                      => (last'.status = 400 /\ users' = users)
                /\ deleteUser(c, req[c].user.id)
                      => (last'.status = 400 /\ users' = users)]_vars

(* ------------------------ enrollments and lessons --------------------- *)
\* The enrollment and lesson routes of one build: the students and the
\* instructor of InitRbac enroll, cancel, report lesson progress and read
\* lessons. On PostgreSQL optionalAuth's SELECT (is_active = 1 against a
\* BOOLEAN column) fails and is swallowed, so it finds no rows.
NextEnroll(dialect) ==
    \/ \E c \in Slots, t \in Presentable : protect(c, t)
    \/ \E c \in Slots, t \in Presentable : optionalAuth(c, t, dialect = "mysql")
    \/ \E c \in Slots, k \in CourseIds : enrollInCourse(c, k)
    \/ \E c \in Slots, k \in CourseIds : cancelEnrollment(c, k, dialect)
    \/ \E c \in Slots, l \in LessonIds, is_completed \in BOOLEAN :
          updateLessonProgress(c, l, is_completed, dialect)
    \/ \E c \in Slots, l \in LessonIds : getLessonById(c, l, dialect)

SpecEnrollPostgres == InitRbac /\ [][NextEnroll("postgres")]_vars
SpecEnrollMysql == InitRbac /\ [][NextEnroll("mysql")]_vars

\* The enrollment row of the user of request c in course k, if any.
enrollmentOf(c, k) == <<req[c].user.id, k>>

hasEnrollment(c, k, statuses) ==
    /\ enrollmentOf(c, k) \in DOMAIN enrollments
    /\ enrollments[enrollmentOf(c, k)].status \in statuses

\* What the lifecycle asks of an enrollInCourse on an existing course.
EnrollStepFollowsLifecycle(c, k) ==
    LET e == enrollmentOf(c, k)
    IN IF hasEnrollment(c, k, {"active", "completed"})
       THEN last'.status = 400 /\ enrollments' = enrollments
       ELSE IF ~courses[k].is_published \/ courses[k].instructor_id = req[c].user.id
       THEN last'.status = 400 /\ enrollments' = enrollments
       ELSE /\ last'.status \in {200, 201}
            /\ e \in DOMAIN enrollments'
            /\ enrollments'[e] = [status |-> "active", progress |-> 0]

\* What the lifecycle asks of a cancelEnrollment on an existing course.
CancelStepFollowsLifecycle(c, k) ==
    LET e == enrollmentOf(c, k)
    IN IF hasEnrollment(c, k, {"active"})
       THEN /\ last'.status = 200
            /\ enrollments'[e].status = "cancelled"
       ELSE last'.status = 400 /\ enrollments' = enrollments

\* C26: enrollInCourse creates an active enrollment of progress 0 when the
\* user has none and reactivates a cancelled one with progress 0; it answers
\* 400 and changes nothing when the enrollment is active or completed, when
\* the course is unpublished and when the user is its instructor;
\* cancelEnrollment succeeds from an active enrollment and answers 400,
\* changing nothing, from every other state.
C26_EnrollmentLifecycle ==
    [][\A c \in Slots, k \in DOMAIN courses :
          /\ enrollInCourse(c, k) => EnrollStepFollowsLifecycle(c, k)
          /\ (\E d \in Dialects : cancelEnrollment(c, k, d))
                => CancelStepFollowsLifecycle(c, k)]_vars

\* The part of C26 that is about enrollInCourse alone.
C26_EnrollFollowsLifecycle ==
    [][\A c \in Slots, k \in DOMAIN courses :
          enrollInCourse(c, k) => EnrollStepFollowsLifecycle(c, k)]_vars

\* No instructor holds an enrollment in a course of their own, and nobody
\* one in a course that was unpublished all along.
C26_NoOwnOrUnpublishedEnrollment ==
    \A e \in DOMAIN enrollments :
        e[2] \in DOMAIN courses
           => courses[e[2]].instructor_id # e[1] /\ courses[e[2]].is_published

\* The enrollments of course k that are not cancelled.
nonCancelled(k) ==
    {e \in DOMAIN enrollments : e[2] = k /\ enrollments[e].status # "cancelled"}

\* C27: the total_enrollments of a course is the number of its enrollments
\* that are not cancelled, and is never negative, also after a cancelled
\* enrollment was reactivated.
C27_CounterIsNonCancelledCount ==
    \A k \in DOMAIN courses :
        /\ courses[k].total_enrollments >= 0
        /\ courses[k].total_enrollments = Cardinality(nonCancelled(k))

\* The part of C27 that is about the sign of the counter.
C27_CounterNeverNegative ==
    \A k \in DOMAIN courses : courses[k].total_enrollments >= 0

\* The user holds an enrollment in course k that is not cancelled.
enrolledIn(user, k) ==
    /\ user # NoUser
    /\ <<user.id, k>> \in nonCancelled(k)

\* What C28 asks while the statuses in `statuses` count as enrolled: the
\* guard passes the user, and a lesson read or a progress update of theirs
\* in the course is answered 200.
KeepsAccess(statuses) ==
    /\ \A u \in DOMAIN users, k \in DOMAIN courses :
          enrolledIn(Identity(u), k) /\ enrollments[<<u, k>>].status \in statuses
             => enrolledOrInstructorResult(Identity(u), k, TRUE).next
    /\ \A c \in Slots, l \in DOMAIN lessons :
          enrolledIn(req[c].user, lessons[l].course_id)
          /\ hasEnrollment(c, lessons[l].course_id, statuses)
             => /\ (\E d \in Dialects : getLessonById(c, l, d)) => last'.status = 200
                /\ (\E d \in Dialects, b \in BOOLEAN : updateLessonProgress(c, l, b, d))
                      => last'.status = 200

\* C28: a student whose enrollment is not cancelled keeps access to the
\* course's lessons across lesson-progress updates, also once the progress
\* has reached 100%: enrolledOrInstructor passes them, getLessonById serves
\* them the lesson and updateLessonProgress accepts their updates.
C28_EnrolledKeepsLessonAccess ==
    [][KeepsAccess({"active", "completed"})]_vars

\* The part of C28 that is about enrollments below 100%.
C28_ActiveKeepsLessonAccess ==
    [][KeepsAccess({"active"})]_vars

(* ------------------------------ frontend ------------------------------ *)
\* The interceptor stops after this many refreshes of one call in the model;
\* the code's own limit, the _retry flag, is lower.
MaxAttempts == 2

\* The seconds of the frontend's runs: the access token signed at 0 has
\* expired, the refresh token signed at 0 expires at the last of them.
ClientClock == {AccessTTL, AccessTTL + 1, RefreshTTL}

\* The student is logged in since second 0 and the browser holds the pair.
LoggedIn ==
    /\ users = [seedUsers EXCEPT ![2].refresh_token = [kind |-> "refresh", id |-> 2, iat |-> 0]]
    /\ nextId = 3
    /\ now = AccessTTL
    /\ pc = [c \in Slots |-> "idle"]
    /\ req = [c \in Slots |-> IdleReq]
    /\ last = NoResponse
    /\ nreq = 0
    /\ issued = {[id |-> 2, iat |-> 0]}
    /\ courses = <<>>
    /\ enrollments = <<>>
    /\ lesson_progress = <<>>
    /\ localStorage = [accessToken |-> [kind |-> "access", id |-> 2, iat |-> 0],
                       refreshToken |-> [kind |-> "refresh", id |-> 2, iat |-> 0]]

InitClient ==
    /\ LoggedIn
    /\ originalRequest = [r \in Calls |-> NoCall]

server == <<users, nextId, now, pc, req, last, nreq, issued, courses, enrollments,
            lesson_progress>>

Settled(r) == originalRequest[r].phase \in {"resolved", "rejected"}

\* api.<method>(...): the request interceptor copies the access token of
\* localStorage into the Authorization header. `rejects` tells whether the
\* route's handler answers 401 on its own (wrong current password, wrong
\* credentials).
request(r, rejects) ==
    /\ originalRequest[r].phase = "new"
    /\ originalRequest' = [originalRequest EXCEPT
                              ![r].phase = "sent",
                              ![r].Authorization = localStorage.accessToken,
                              ![r].rejects = rejects]
    /\ UNCHANGED <<server, localStorage>>

\* The server answers the call: protect, then the route's handler.
serve(r) ==
    /\ originalRequest[r].phase = "sent"
    /\ LET p == protectResult(originalRequest[r].Authorization)
           status == IF ~p.next THEN p.status
                     ELSE IF originalRequest[r].rejects THEN 401
                     ELSE 200
       IN originalRequest' = [originalRequest EXCEPT ![r].phase = "answered",
                                                     ![r].status = status]
    /\ UNCHANGED <<server, localStorage>>

\* The response interceptor that never marks the request as retried
\* (mutation of shouldRefresh).
shouldRefresh_everyTime(r) == originalRequest[r].status = 401

\* error.response?.status === 401 && !originalRequest._retry
shouldRefresh(r) == originalRequest[r].status = 401 /\ ~originalRequest[r].retry

\* The response interceptor up to its await: a response passes through; a
\* 401 not yet retried sets _retry and posts the refresh token of
\* localStorage to /auth/refresh, if there is one; every other error is
\* rejected.
interceptor(r) ==
    /\ originalRequest[r].phase = "answered"
    /\ IF originalRequest[r].status = 200
       THEN originalRequest' = [originalRequest EXCEPT ![r].phase = "resolved"]
       ELSE IF shouldRefresh(r) /\ localStorage.refreshToken # NoToken
       THEN /\ originalRequest[r].refreshes < MaxAttempts
            /\ originalRequest' = [originalRequest EXCEPT
                                      ![r].phase = "refreshing",
                                      ![r].retry = TRUE,
                                      ![r].refreshToken = localStorage.refreshToken,
                                      ![r].refreshes = @ + 1]
       ELSE originalRequest' = [originalRequest EXCEPT
                                   ![r].phase = "rejected",
                                   ![r].retry = @ \/ shouldRefresh(r)]
    /\ UNCHANGED <<server, localStorage>>

\* POST /auth/refresh of the call reaches verifyRefreshToken.
refreshVerified(r) ==
    /\ originalRequest[r].phase = "refreshing"
    /\ LET v == verifyRefreshTokenResult(originalRequest[r].refreshToken)
       IN originalRequest' = [originalRequest EXCEPT
                                 ![r].phase = IF v.next THEN "verified" ELSE "refreshed",
                                 ![r].status = v.status,
                                 ![r].data = NoTokens]
    /\ UNCHANGED <<server, localStorage>>

\* ... and, once verified, the refreshToken handler, which stores and
\* returns a new pair.
refreshHandled(r) ==
    /\ originalRequest[r].phase = "verified"
    /\ LET id == originalRequest[r].refreshToken.id
           tokens == generateTokens(id)
       IN /\ users' = setRefreshToken(id, tokens.refreshToken)
          /\ issued' = Issue(id)
          /\ originalRequest' = [originalRequest EXCEPT ![r].phase = "refreshed",
                                                        ![r].status = 200,
                                                        ![r].data = tokens]
    /\ UNCHANGED <<nextId, now, pc, req, last, nreq, courses, enrollments, lesson_progress,
                   localStorage>>

\* The interceptor after its await: the new pair goes to localStorage and
\* the request is sent again with the new access token; a refresh that
\* failed removes both tokens (and sends the browser to /login).
resumed(r) ==
    /\ originalRequest[r].phase = "refreshed"
    /\ IF originalRequest[r].status = 200
       THEN /\ localStorage' = originalRequest[r].data
            /\ originalRequest' = [originalRequest EXCEPT
                                      ![r].phase = "sent",
                                      ![r].Authorization = originalRequest[r].data.accessToken,
                                      ![r].resends = @ + 1]
       ELSE /\ localStorage' = NoTokens
            /\ originalRequest' = [originalRequest EXCEPT ![r].phase = "rejected"]
    /\ UNCHANGED server

CallStep(r) ==
    \/ serve(r)
    \/ interceptor(r)
    \/ refreshVerified(r)
    \/ refreshHandled(r)
    \/ resumed(r)

NextClient ==
    \/ \E r \in Calls, rejects \in BOOLEAN : request(r, rejects)
    \/ \E r \in Calls : serve(r)
    \/ \E r \in Calls : interceptor(r)
    \/ \E r \in Calls : refreshVerified(r)
    \/ \E r \in Calls : refreshHandled(r)
    \/ \E r \in Calls : resumed(r)
    \/ \E t \in ClientClock : Tick(t)

SpecClient == InitClient /\ [][NextClient]_vars

\* The server answers every request and the browser runs every
\* continuation that is due.
SpecClientFair == SpecClient /\ \A r \in Calls : WF_vars(CallStep(r))

\* C29: for one request the response interceptor makes at most one refresh
\* call and at most one resend, and its handling of a 401 ends: the request
\* is resolved or rejected.
C29_OneRefreshOneResend ==
    /\ [](\A r \in Calls : originalRequest[r].refreshes <= 1 /\ originalRequest[r].resends <= 1)
    /\ \A r \in Calls :
          (originalRequest[r].phase = "answered" /\ originalRequest[r].status = 401)
             ~> Settled(r)

\* A request was resent after a refresh, answered 401 again and rejected
\* without a second refresh.
C29_Witness ==
    \E r \in Calls :
        /\ originalRequest[r].phase = "rejected"
        /\ originalRequest[r].status = 401
        /\ originalRequest[r].resends = 1
        /\ originalRequest[r].refreshes = 1

\* Two calls sent with the expired access token have both been answered 401
\* by protect, and the browser still holds the refresh token the server
\* has stored: the state reached from InitClient by request and serve of
\* both calls.
InitInFlight ==
    /\ LoggedIn
    /\ \E rejects \in [Calls -> BOOLEAN] :
          originalRequest = [r \in Calls |->
                                [NoCall EXCEPT !.phase = "answered",
                                               !.Authorization = localStorage.accessToken,
                                               !.status = 401,
                                               !.rejects = rejects[r]]]

NextInFlight ==
    \/ \E r \in Calls : serve(r)
    \/ \E r \in Calls : interceptor(r)
    \/ \E r \in Calls : refreshVerified(r)
    \/ \E r \in Calls : refreshHandled(r)
    \/ \E r \in Calls : resumed(r)
    \/ \E t \in ClientClock : Tick(t)

SpecInFlight == InitInFlight /\ [][NextInFlight]_vars

\* The browser holds a token pair the server accepts.
SessionKept ==
    /\ localStorage.refreshToken # NoToken
    /\ verifyRefreshTokenResult(localStorage.refreshToken).next
    /\ protectResult(localStorage.accessToken).next

\* C30: when two requests in flight are both answered 401 while the browser
\* holds a valid refresh token, then, once the interceptor has handled both,
\* the browser holds a token pair the server accepts and both requests were
\* resent, whatever the order of the steps.
C30_BothRefreshedSessionKept ==
    (now < RefreshTTL /\ \A r \in Calls : Settled(r))
       => /\ SessionKept
          /\ \A r \in Calls : originalRequest[r].resends = 1
====
